---------------------------- MODULE Spec2Model ----------------------------
(***************************************************************************)
(* The LLM structured-output recovery and validation pipeline of           *)
(* src/app/classification.py: the JSON Repair Engine, the Response         *)
(* Normalizer and parser, the stage validators and the classify functions  *)
(* with their single retry escalation.                                     *)
(*                                                                         *)
(* Text is a sequence of one-character strings.  Positions are 1-based;    *)
(* Find and RFind return 0 where Python's find and rfind return -1.        *)
(***************************************************************************)
EXTENDS Integers, Sequences, FiniteSets, TLC

VARIABLES
    rpIn,       \* _repair_malformed_json: the json_str argument
    rpOut,      \* its return value
    rpOut2,     \* the return value of a second run on rpOut
    rpPhase,    \* "unused" | "input" | "once" | "twice"
    pc,         \* the classify call: "unused" | "idle" | "escalated" | "returned" | "raised"
    stageFn,    \* "none" | "math" | "stage1" | "stage2": the classify function called
    genLog,     \* the model.generate invocations of the call, in order
    attempts,   \* the outputs the call has parsed, in order
    result,     \* the dictionary the call returned (JNull before, and when it raised)
    error,      \* the cause of the RuntimeError the call raised ("none" otherwise)
    mathReply,  \* what the model answers to the prompt of a math call (response_text)
    v1In,       \* _validate_stage1_response: the parsed response handed in
    v1Out,      \* what classify_stage1 makes of it: [pc, result, error]
    v1Phase,    \* "unused" | "input" | "done" | "read"
    rtIn,       \* a model response that is a valid JSON object
    rtOut,      \* the text the normalizer and the repair engine make of it
    rtPhase,    \* "unused" | "input" | "done" | "parsed"
    v2In,       \* _validate_stage2_response: the parsed response handed in
    v2Out,      \* [raised, val]: it raised, or the response as it left it
    v2Phase,    \* "unused" | "input" | "done" | "read"
    cfgStage,   \* "none" | the stage whose generation parameters are extracted
    cfgIn,      \* the generation_config of the caller
    cfgOut,     \* [max_new_tokens, max_input_length, proceeds]: what the stage goes on with
    cfgPhase,   \* "unused" | "input" | "extracted" | "generating" | "raised"
    deployment, \* "unused" | "runpod" | "fastapi": the entry point that serves /prompt
    reqPc,      \* where each /prompt request stands
    semaphore,  \* the free slots of classification_semaphore
    llamaProcessor,   \* the module global _llama_processor: "None" | "loaded"
    hasPastKeyValues, \* hasattr(processor.model, 'past_key_values')
    writers,    \* for each object shared by the calls, the requests that wrote it
    readers,    \* for each object shared by the calls, the requests that read it
    localWriters, \* for each request, the requests that wrote the locals of its call
    startup,    \* "unused" | "pending" | "done": the lifespan start-up of the FastAPI app
    constructions, \* the LlamaProcessor objects constructed in the process so far
    reply,      \* for each request, what its caller got so far
    jobLog,     \* for each request, what its job did so far: "acquired", "invoked", "raised", "released"
    schFiles,   \* schema_loader: what each schema file under SCHEMAS_DIR holds
    schCache,   \* _schema_cache: for each path "uncached" or the schema stored
    schCall,    \* the last call of get_stage_4_schema and what the loader found
    schOut,     \* its return value
    nzIn,       \* _parse_classification_response: the response argument
    nzStage,    \* its stage argument
    nzOut,      \* [kind, span, parse]: the span handed to the repair engine, the outcome
    nzPhase,    \* "unused" | "input" | "located" | "parsed"
    lpIn,       \* _repair_malformed_json run step by step: the json_str argument
    lpText,     \* json_str as the run goes on
    lpIters,    \* the iterations the while loop of Issue #6 has made
    lpPhase,    \* "unused" | "input" | "loop" | "after" | "returned"
    jrResponse, \* generate_journal_entry: the text decoded from the model's output
    jrOut,      \* [raised, fallback, entry]: what generate_journal_entry gave its caller
    jrPhase     \* "unused" | "decoded" | "returned"

rpVars == <<rpIn, rpOut, rpOut2, rpPhase>>
callVars == <<pc, stageFn, genLog, attempts, result, error, mathReply>>
v1Vars == <<v1In, v1Out, v1Phase>>
rtVars == <<rtIn, rtOut, rtPhase>>
v2Vars == <<v2In, v2Out, v2Phase>>
cfgVars == <<cfgStage, cfgIn, cfgOut, cfgPhase>>
srvVars == <<deployment, reqPc, semaphore, llamaProcessor, hasPastKeyValues, writers, readers,
            localWriters, startup, constructions, reply, jobLog>>

schVars == <<schFiles, schCache, schCall, schOut>>

nzVars == <<nzIn, nzStage, nzOut, nzPhase>>

lpVars == <<lpIn, lpText, lpIters, lpPhase>>

jrVars == <<jrResponse, jrOut, jrPhase>>

vars == <<rpVars, callVars, v1Vars, rtVars, v2Vars, cfgVars, srvVars, schVars, nzVars, lpVars, jrVars>>

-----------------------------------------------------------------------------
(* Bounds *)

\* longest text handed to the repair engine when its inputs are enumerated
MaxRepairLen == 4

\* longest string value of the JSON objects sent through normalizer and repair
MaxValueLen == 3

\* the /prompt requests that are served concurrently
NumRequests == 3

-----------------------------------------------------------------------------
(* Text primitives (Python str methods and the re module, as the code uses  *)
(* them)                                                                    *)

\* str.isspace / regex \s on the characters of the model's alphabets
IsWs(c) == c \in {" ", "\n", "\t", "\r"}

\* str.count(c) for a single character c
Count(s, c) == Cardinality({i \in 1..Len(s) : s[i] = c})

\* str.find(c) for a single character: first position, 0 when absent
Find(s, c) ==
    IF \E i \in 1..Len(s) : s[i] = c
    THEN CHOOSE i \in 1..Len(s) : s[i] = c /\ \A j \in 1..(i-1) : s[j] # c
    ELSE 0

\* str.rfind(c) for a single character: last position, 0 when absent
RFind(s, c) ==
    IF \E i \in 1..Len(s) : s[i] = c
    THEN CHOOSE i \in 1..Len(s) : s[i] = c /\ \A j \in (i+1)..Len(s) : s[j] # c
    ELSE 0

\* str.startswith(p)
StartsWith(s, p) == Len(s) >= Len(p) /\ SubSeq(s, 1, Len(p)) = p

\* str.endswith(p)
EndsWith(s, p) == Len(s) >= Len(p) /\ SubSeq(s, Len(s) - Len(p) + 1, Len(s)) = p

\* s[i:].startswith(lit), i a position of s
LitAt(s, i, lit) == i + Len(lit) - 1 <= Len(s) /\ SubSeq(s, i, i + Len(lit) - 1) = lit

\* str.strip(): leading and trailing whitespace removed
Strip(s) ==
    IF \A i \in 1..Len(s) : IsWs(s[i]) THEN <<>>
    ELSE LET a == CHOOSE i \in 1..Len(s) : ~IsWs(s[i]) /\ \A j \in 1..(i-1) : IsWs(s[j])
             b == CHOOSE i \in 1..Len(s) : ~IsWs(s[i]) /\ \A j \in (i+1)..Len(s) : IsWs(s[j])
         IN SubSeq(s, a, b)

\* the position of the first non-whitespace character at or after i
\* (Len(s) + 1 when there is none): where a greedy \s* starting at i stops
SkipWs(s, i) ==
    IF \E j \in i..Len(s) : ~IsWs(s[j])
    THEN CHOOSE j \in i..Len(s) : ~IsWs(s[j]) /\ \A k \in i..(j-1) : IsWs(s[k])
    ELSE Len(s) + 1

\* a match of ,(\s*[}\]]) starts at s[i]
TrailingCommaAt(s, i) ==
    /\ s[i] = ","
    /\ SkipWs(s, i + 1) <= Len(s)
    /\ s[SkipWs(s, i + 1)] \in {"}", "]"}

RECURSIVE SubTrailingComma(_, _)
\* re.sub(r',(\s*[}\]])', r'\1', s) from position i on: leftmost,
\* non-overlapping matches, each replaced by its group 1
SubTrailingComma(s, i) ==
    IF \A m \in i..Len(s) : ~TrailingCommaAt(s, m) THEN SubSeq(s, i, Len(s))
    ELSE LET m == CHOOSE m \in i..Len(s) :
                      TrailingCommaAt(s, m) /\ \A k \in i..(m-1) : ~TrailingCommaAt(s, k)
             j == SkipWs(s, m + 1)
         IN SubSeq(s, i, m - 1) \o SubSeq(s, m + 1, j) \o SubTrailingComma(s, j + 1)

\* a match of ,\s*, starts at s[i]
MultiCommaAt(s, i) ==
    /\ s[i] = ","
    /\ SkipWs(s, i + 1) <= Len(s)
    /\ s[SkipWs(s, i + 1)] = ","

RECURSIVE SubMultiComma(_, _)
\* re.sub(r',\s*,', ',', s) from position i on
SubMultiComma(s, i) ==
    IF \A m \in i..Len(s) : ~MultiCommaAt(s, m) THEN SubSeq(s, i, Len(s))
    ELSE LET m == CHOOSE m \in i..Len(s) :
                      MultiCommaAt(s, m) /\ \A k \in i..(m-1) : ~MultiCommaAt(s, k)
         IN SubSeq(s, i, m) \o SubMultiComma(s, SkipWs(s, m + 1) + 1)

-----------------------------------------------------------------------------
(* JSON Repair Engine: _repair_malformed_json *)

\* the while loop of Issue #6 finds no '}' it may remove (last_brace > 0 is
\* false, 0-based) although closers still outnumber openers: the loop spins
StripLoopStuck(s) == Count(s, "}") > Count(s, "{") /\ RFind(s, "}") <= 1

RECURSIVE StripExcessClosers(_)
\* Issue #6: while closers outnumber openers, remove the last '}'
StripExcessClosers(s) ==
    IF Count(s, "}") > Count(s, "{") /\ ~StripLoopStuck(s)
    THEN LET last == RFind(s, "}")
         IN StripExcessClosers(SubSeq(s, 1, last - 1) \o SubSeq(s, last + 1, Len(s)))
    ELSE s

\* Issue #7: one duplicate leading '{' removed, only when no wrapper was added
StripDuplicateOpener(s, needs_outer_wrapper) ==
    IF ~needs_outer_wrapper /\ Count(s, "{") > Count(s, "}") /\ StartsWith(s, <<"{", "{">>)
    THEN Tail(s)
    ELSE s

\* Issue #5 of the repair sequence
CollapseCommas(s) == SubMultiComma(s, 1)

RECURSIVE DropTrailingComma(_, _)
\* re.sub(r',(\s*[}\]])', '', s) from position i on: the whole match removed
DropTrailingComma(s, i) ==
    IF \A m \in i..Len(s) : ~TrailingCommaAt(s, m) THEN SubSeq(s, i, Len(s))
    ELSE LET m == CHOOSE m \in i..Len(s) :
                      TrailingCommaAt(s, m) /\ \A k \in i..(m-1) : ~TrailingCommaAt(s, k)
         IN SubSeq(s, i, m - 1) \o DropTrailingComma(s, SkipWs(s, m + 1) + 1)

\* faulty variant: trailing commas stay
RemoveTrailingCommas_Keep(s) == s

\* faulty variant: the closing bracket goes with the comma
RemoveTrailingCommas_DropGroup(s) == DropTrailingComma(s, 1)

\* Issue #4 of the repair sequence
RemoveTrailingCommas(s) == SubTrailingComma(s, 1)

RepairMalformedJson(json_str) ==
    LET s0 == Strip(json_str)
        needs_outer_wrapper == ~StartsWith(s0, <<"{">>)
        s1 == IF needs_outer_wrapper THEN <<"{", "\n">> \o s0 ELSE s0
        s2 == IF ~EndsWith(s1, <<"}">>) THEN s1 \o <<"\n", "}">> ELSE s1
        s3 == RemoveTrailingCommas(s2)
        s4 == CollapseCommas(s3)
        s5 == IF Count(s4, "}") > Count(s4, "{") THEN StripExcessClosers(s4) ELSE s4
    IN StripDuplicateOpener(s5, needs_outer_wrapper)

-----------------------------------------------------------------------------
(* json.loads: Python's decoder on the model's alphabets.  A value is a    *)
(* record tagged by its Python type: [t |-> "null"], [t |-> "bool", b],    *)
(* [t |-> "int", n], [t |-> "float", f] (f one of "nan", "inf", "-inf":    *)
(* the alphabets hold no '.', and no exponent follows a digit),            *)
(* [t |-> "str", s], [t |-> "list", l] and [t |-> "dict", d], d the        *)
(* sequence of its items [k, v] in insertion order.  The alphabets hold no *)
(* backslash, so a string has no escapes.                                  *)

JNull == [t |-> "null"]
JBool(b) == [t |-> "bool", b |-> b]
JInt(n) == [t |-> "int", n |-> n]
JFloat(f) == [t |-> "float", f |-> f]
JStr(s) == [t |-> "str", s |-> s]
JList(l) == [t |-> "list", l |-> l]
JDict(d) == [t |-> "dict", d |-> d]

\* key in dict
HasKey(obj, key) == \E i \in 1..Len(obj.d) : obj.d[i].k = key

\* dict[key], for a key the dict has
Get(obj, key) == obj.d[CHOOSE i \in 1..Len(obj.d) : obj.d[i].k = key].v

\* dict[key] = val: the value replaced in place, or a new last item
DictSetItems(d, key, val) ==
    IF \E i \in 1..Len(d) : d[i].k = key
    THEN LET i == CHOOSE i \in 1..Len(d) : d[i].k = key
         IN SubSeq(d, 1, i - 1) \o <<[k |-> key, v |-> val]>> \o SubSeq(d, i + 1, Len(d))
    ELSE Append(d, [k |-> key, v |-> val])

Put(obj, key, val) == JDict(DictSetItems(obj.d, key, val))

ScanFail == [ok |-> FALSE, pos |-> 0, val |-> JNull]
ScanOk(p, v) == [ok |-> TRUE, pos |-> p, val |-> v]

Digits == {"0", "1", "2", "3", "4", "5", "6", "7", "8", "9"}

DigitVal(c) ==
    CASE c = "0" -> 0 [] c = "1" -> 1 [] c = "2" -> 2 [] c = "3" -> 3 [] c = "4" -> 4
      [] c = "5" -> 5 [] c = "6" -> 6 [] c = "7" -> 7 [] c = "8" -> 8 [] c = "9" -> 9

\* py_scanstring with strict=True, s[i] being the opening quote: the string
\* ends at the next quote, and a control character inside it is an error
JsonString(s, i) ==
    IF \E j \in (i+1)..Len(s) : s[j] = "\""
    THEN LET j == CHOOSE j \in (i+1)..Len(s) : s[j] = "\"" /\ \A k \in (i+1)..(j-1) : s[k] # "\""
         IN IF \E k \in (i+1)..(j-1) : s[k] \in {"\n", "\t", "\r"}
            THEN ScanFail
            ELSE ScanOk(j + 1, JStr(SubSeq(s, i + 1, j - 1)))
    ELSE ScanFail

RECURSIVE DigitsValue(_, _, _, _)
\* the value of the digits s[i..j-1], most significant first
DigitsValue(s, i, j, acc) ==
    IF i >= j THEN acc ELSE DigitsValue(s, i + 1, j, 10 * acc + DigitVal(s[i]))

\* NUMBER_RE = (-?(?:0|[1-9]\d*)) with no fraction and no exponent
JsonNumber(s, i) ==
    LET neg == i <= Len(s) /\ s[i] = "-"
        d == IF neg THEN i + 1 ELSE i
    IN IF d > Len(s) \/ s[d] \notin Digits THEN ScanFail
       ELSE LET e == IF s[d] = "0" THEN d + 1
                     ELSE IF \E j \in d..Len(s) : s[j] \notin Digits
                          THEN CHOOSE j \in d..Len(s) : s[j] \notin Digits
                                                        /\ \A k \in d..(j-1) : s[k] \in Digits
                          ELSE Len(s) + 1
                n == DigitsValue(s, d, e, 0)
            IN ScanOk(e, JInt(IF neg THEN 0 - n ELSE n))

RECURSIVE JsonValue(_, _), JsonMembers(_, _, _), JsonElements(_, _, _)

\* JSONObject's loop, i at the first character of a key
JsonMembers(s, i, acc) ==
    IF i > Len(s) \/ s[i] # "\"" THEN ScanFail
    ELSE LET key == JsonString(s, i)
         IN IF ~key.ok THEN ScanFail
            ELSE LET c == SkipWs(s, key.pos)
                 IN IF c > Len(s) \/ s[c] # ":" THEN ScanFail
                    ELSE LET v == JsonValue(s, SkipWs(s, c + 1))
                         IN IF ~v.ok THEN ScanFail
                            ELSE LET e == SkipWs(s, v.pos)
                                     acc2 == DictSetItems(acc, key.val.s, v.val)
                                 IN IF e > Len(s) THEN ScanFail
                                    ELSE IF s[e] = "}" THEN ScanOk(e + 1, JDict(acc2))
                                    ELSE IF s[e] = "," THEN JsonMembers(s, SkipWs(s, e + 1), acc2)
                                    ELSE ScanFail

\* JSONArray's loop, i at the first character of an element
JsonElements(s, i, acc) ==
    LET v == JsonValue(s, i)
    IN IF ~v.ok THEN ScanFail
       ELSE LET e == SkipWs(s, v.pos)
                acc2 == Append(acc, v.val)
            IN IF e > Len(s) THEN ScanFail
               ELSE IF s[e] = "]" THEN ScanOk(e + 1, JList(acc2))
               ELSE IF s[e] = "," THEN JsonElements(s, SkipWs(s, e + 1), acc2)
               ELSE ScanFail

\* scan_once: the value starting at s[i]
JsonValue(s, i) ==
    IF i > Len(s) THEN ScanFail
    ELSE IF s[i] = "\"" THEN JsonString(s, i)
    ELSE IF s[i] = "{"
         THEN LET j == SkipWs(s, i + 1)
              IN IF j <= Len(s) /\ s[j] = "}" THEN ScanOk(j + 1, JDict(<<>>))
                 ELSE JsonMembers(s, j, <<>>)
    ELSE IF s[i] = "["
         THEN LET j == SkipWs(s, i + 1)
              IN IF j <= Len(s) /\ s[j] = "]" THEN ScanOk(j + 1, JList(<<>>))
                 ELSE JsonElements(s, j, <<>>)
    ELSE IF LitAt(s, i, <<"n", "u", "l", "l">>) THEN ScanOk(i + 4, JNull)
    ELSE IF LitAt(s, i, <<"t", "r", "u", "e">>) THEN ScanOk(i + 4, JBool(TRUE))
    ELSE IF LitAt(s, i, <<"f", "a", "l", "s", "e">>) THEN ScanOk(i + 5, JBool(FALSE))
    ELSE IF JsonNumber(s, i).ok THEN JsonNumber(s, i)
    ELSE IF LitAt(s, i, <<"N", "a", "N">>) THEN ScanOk(i + 3, JFloat("nan"))
    ELSE IF LitAt(s, i, <<"I", "n", "f", "i", "n", "i", "t", "y">>) THEN ScanOk(i + 8, JFloat("inf"))
    ELSE IF LitAt(s, i, <<"-", "I", "n", "f", "i", "n", "i", "t", "y">>) THEN ScanOk(i + 9, JFloat("-inf"))
    ELSE ScanFail

\* json.loads(s): [ok, val]; ok is FALSE where json.loads raises JSONDecodeError
\* (no value, or extra data after it)
JsonLoads(s) ==
    LET v == JsonValue(s, SkipWs(s, 1))
    IN IF v.ok /\ SkipWs(s, v.pos) = Len(s) + 1
       THEN [ok |-> TRUE, val |-> v.val]
       ELSE [ok |-> FALSE, val |-> JNull]

-----------------------------------------------------------------------------
(* Response Normalizer and parser: _parse_classification_response *)

\* the stage-2 minimum length of the extracted span
MinSpanLen == 50

\* the prefix of the text searched for a preamble phrase
PreambleWindow == 200

\* the backtick of a markdown code fence: the one character the lexer of
\* TLA+ does not take inside a string, written as a character no text of
\* the model holds otherwise
BT == "^"

RECURSIVE RemoveAll(_, _)
\* str.replace(pat, ''): leftmost, non-overlapping occurrences removed
RemoveAll(s, pat) ==
    IF \A i \in 1..Len(s) : ~LitAt(s, i, pat) THEN s
    ELSE LET i == CHOOSE i \in 1..Len(s) : LitAt(s, i, pat) /\ \A k \in 1..(i-1) : ~LitAt(s, k, pat)
         IN SubSeq(s, 1, i - 1) \o RemoveAll(SubSeq(s, i + Len(pat), Len(s)), pat)

\* the four replace calls that drop markdown code-fence markers, then strip()
RemoveFences(response) ==
    LET a == RemoveAll(response, <<BT, BT, BT, "j", "s", "o", "n", "\n">>)
        b == RemoveAll(a, <<BT, BT, BT, "j", "s", "o", "n">>)
        c == RemoveAll(b, <<BT, BT, BT, "\n">>)
    IN Strip(RemoveAll(c, <<BT, BT, BT>>))

\* str.lower() on one character
Lower(c) ==
    CASE c = "A" -> "a"
      [] c = "B" -> "b"
      [] c = "C" -> "c"
      [] c = "D" -> "d"
      [] c = "E" -> "e"
      [] c = "F" -> "f"
      [] c = "G" -> "g"
      [] c = "H" -> "h"
      [] c = "I" -> "i"
      [] c = "J" -> "j"
      [] c = "K" -> "k"
      [] c = "L" -> "l"
      [] c = "M" -> "m"
      [] c = "N" -> "n"
      [] c = "O" -> "o"
      [] c = "P" -> "p"
      [] c = "Q" -> "q"
      [] c = "R" -> "r"
      [] c = "S" -> "s"
      [] c = "T" -> "t"
      [] c = "U" -> "u"
      [] c = "V" -> "v"
      [] c = "W" -> "w"
      [] c = "X" -> "x"
      [] c = "Y" -> "y"
      [] c = "Z" -> "z"
      [] OTHER -> c

LowerText(s) == [i \in 1..Len(s) |-> Lower(s[i])]

\* pat in s
Contains(s, pat) == \E i \in 1..(Len(s) - Len(pat) + 1) : SubSeq(s, i, i + Len(pat) - 1) = pat

\* preamble_patterns
PreamblePatterns == {
    <<"B", "a", "s", "e", "d", " ", "o", "n", " ", "t", "h", "e", " ", "p", "r", "o", "v", "i", "d", "e", "d">>,
    <<"B", "a", "s", "e", "d", " ", "o", "n", " ", "t", "h", "e", " ", "d", "o", "c", "u", "m", "e", "n", "t">>,
    <<"B", "a", "s", "e", "d", " ", "o", "n", " ", "t", "h", "i", "s">>,
    <<"H", "e", "r", "e", "'", "s", " ", "t", "h", "e">>,
    <<"H", "e", "r", "e", " ", "i", "s", " ", "t", "h", "e">>,
    <<"T", "h", "e", " ", "f", "o", "l", "l", "o", "w", "i", "n", "g", " ", "i", "s">>,
    <<"B", "e", "l", "o", "w", " ", "i", "s", " ", "t", "h", "e">>,
    <<"I", "'", "l", "l", " ", "p", "r", "o", "v", "i", "d", "e">>,
    <<"L", "e", "t", " ", "m", "e", " ", "p", "r", "o", "v", "i", "d", "e">>,
    <<"S", "u", "r", "e", ",", " ", "h", "e", "r", "e">>,
    <<"C", "e", "r", "t", "a", "i", "n", "l", "y">>,
    <<"L", "o", "o", "k", "i", "n", "g", " ", "a", "t", " ", "t", "h", "e", " ", "d", "o", "c", "u", "m", "e", "n", "t">>,
    <<"F", "r", "o", "m", " ", "t", "h", "e", " ", "d", "o", "c", "u", "m", "e", "n", "t">>}

\* the preamble loop: when a phrase occurs in the first 200 characters (case
\* ignored), everything before the first '{' is dropped
RemovePreamble(json_str) ==
    LET window == LowerText(SubSeq(json_str, 1, IF Len(json_str) < PreambleWindow
                                                THEN Len(json_str) ELSE PreambleWindow))
        json_start == Find(json_str, "{")
    IN IF (\E p \in PreamblePatterns : Contains(window, LowerText(p))) /\ json_start > 1
       THEN SubSeq(json_str, json_start, Len(json_str))
       ELSE json_str

\* the end of the match of \{[^{}]*(?:\{[^{}]*\}[^{}]*)*\} that starts at
\* s[i] = '{', p being the position reached so far; 0 when there is none
RECURSIVE BalancedEnd(_, _)
BalancedEnd(s, p) ==
    IF \A q \in p..Len(s) : s[q] \notin {"{", "}"} THEN 0
    ELSE LET q == CHOOSE q \in p..Len(s) : s[q] \in {"{", "}"}
                                          /\ \A k \in p..(q-1) : s[k] \notin {"{", "}"}
         IN IF s[q] = "}" THEN q
            ELSE IF \A r \in (q+1)..Len(s) : s[r] \notin {"{", "}"} THEN 0
            ELSE LET r == CHOOSE r \in (q+1)..Len(s) : s[r] \in {"{", "}"}
                                                      /\ \A k \in (q+1)..(r-1) : s[k] \notin {"{", "}"}
                 IN IF s[r] = "}" THEN BalancedEnd(s, r + 1) ELSE 0

RECURSIVE FindAllBalanced(_, _)
\* re.findall of that pattern from position pos on: the matches in order
FindAllBalanced(s, pos) ==
    IF \A i \in pos..Len(s) : ~(s[i] = "{" /\ BalancedEnd(s, i + 1) > 0) THEN <<>>
    ELSE LET i == CHOOSE i \in pos..Len(s) :
                      /\ s[i] = "{" /\ BalancedEnd(s, i + 1) > 0
                      /\ \A k \in pos..(i-1) : ~(s[k] = "{" /\ BalancedEnd(s, k + 1) > 0)
             e == BalancedEnd(s, i + 1)
         IN <<SubSeq(s, i, e)>> \o FindAllBalanced(s, e + 1)

\* max(json_matches, key=len): the first of the longest matches
Largest(matches) ==
    matches[CHOOSE i \in 1..Len(matches) :
                /\ \A j \in 1..Len(matches) : Len(matches[j]) <= Len(matches[i])
                /\ \A j \in 1..(i-1) : Len(matches[j]) < Len(matches[i])]

\* return parsed, when json.loads did not raise
ParsedOr(parsed, otherwise) ==
    IF parsed.ok THEN [kind |-> "ok", val |-> parsed.val] ELSE otherwise

\* the except json.JSONDecodeError branch: the regex fallback on the raw
\* response; "Invalid" is ValueError("Invalid JSON in Stage ... response")
RegexFallback(response, stage) ==
    LET json_matches == FindAllBalanced(response, 1)
    IN IF json_matches = <<>> THEN [kind |-> "Invalid", val |-> JNull]
       ELSE ParsedOr(JsonLoads(RepairMalformedJson(Largest(json_matches))),
                     [kind |-> "Invalid", val |-> JNull])

\* the strings the ValueError("Invalid JSON in Stage ... response: " + str(e))
\* of the last line carries: its message is made of the stage and of the
\* message of the JSONDecodeError; the JSONDecodeError it is raised in the
\* handling of holds the repaired json_str as its doc; the response goes to
\* the log only
InvalidJsonCarries(response, json_str) == {json_str}

\* json_str[start:end], from the first '{' to the last '}': empty when the
\* last '}' comes before the first '{'
ExtractedSpan(json_str) == SubSeq(json_str, Find(json_str, "{"), RFind(json_str, "}"))

\* _parse_classification_response from the search for the JSON boundaries on,
\* json_str being the response without fences and preamble
ParseNormalized(json_str, response, stage) ==
    IF Find(json_str, "{") = 0 \/ RFind(json_str, "}") = 0 THEN [kind |-> "NoJson", val |-> JNull]
    ELSE IF Len(ExtractedSpan(json_str)) < MinSpanLen /\ stage = 2 THEN [kind |-> "TooShort", val |-> JNull]
    ELSE ParsedOr(JsonLoads(RepairMalformedJson(ExtractedSpan(json_str))),
                  RegexFallback(response, stage))

\* _parse_classification_response(response, stage): kind "ok" with the parsed
\* value, or the ValueError raised: "NoJson" (No JSON object found), "TooShort"
\* (Stage 2 JSON response too short), "Invalid" (Invalid JSON)
ParseClassificationResponse(response, stage) ==
    ParseNormalized(RemovePreamble(RemoveFences(response)), response, stage)

-----------------------------------------------------------------------------
(* Dictionary keys and string constants of the validators, as texts *)

K_passed == <<"p", "a", "s", "s", "e", "d">>
K_errors == <<"e", "r", "r", "o", "r", "s">>
K_calculations == <<"c", "a", "l", "c", "u", "l", "a", "t", "i", "o", "n", "s">>
K_complexity == <<"c", "o", "m", "p", "l", "e", "x", "i", "t", "y">>
W_moderate == <<"m", "o", "d", "e", "r", "a", "t", "e">>
K_action == <<"a", "c", "t", "i", "o", "n">>
K_business_relevant == <<"b", "u", "s", "i", "n", "e", "s", "s", "_", "r", "e", "l", "e", "v", "a", "n", "t">>
K_selected_action == <<"s", "e", "l", "e", "c", "t", "e", "d", "_", "a", "c", "t", "i", "o", "n">>
K_confidence == <<"c", "o", "n", "f", "i", "d", "e", "n", "c", "e">>
K_reasoning == <<"r", "e", "a", "s", "o", "n", "i", "n", "g">>
K_document_type == <<"d", "o", "c", "u", "m", "e", "n", "t", "_", "t", "y", "p", "e">>
K_transaction_direction == <<"t", "r", "a", "n", "s", "a", "c", "t", "i", "o", "n", "_", "d", "i", "r", "e", "c", "t", "i", "o", "n">>
K_primary_party == <<"p", "r", "i", "m", "a", "r", "y", "_", "p", "a", "r", "t", "y">>
K_extracted_summary == <<"e", "x", "t", "r", "a", "c", "t", "e", "d", "_", "s", "u", "m", "m", "a", "r", "y">>
K_format == <<"f", "o", "r", "m", "a", "t">>
K_total_amount == <<"t", "o", "t", "a", "l", "_", "a", "m", "o", "u", "n", "t">>
K_currency == <<"c", "u", "r", "r", "e", "n", "c", "y">>
K_document_date == <<"d", "o", "c", "u", "m", "e", "n", "t", "_", "d", "a", "t", "e">>
K_document_number == <<"d", "o", "c", "u", "m", "e", "n", "t", "_", "n", "u", "m", "b", "e", "r">>
K_actions == <<"a", "c", "t", "i", "o", "n", "s">>
K_api_request_body == <<"a", "p", "i", "_", "r", "e", "q", "u", "e", "s", "t", "_", "b", "o", "d", "y">>
K_lookups_required == <<"l", "o", "o", "k", "u", "p", "s", "_", "r", "e", "q", "u", "i", "r", "e", "d">>
K_validation == <<"v", "a", "l", "i", "d", "a", "t", "i", "o", "n">>
K_all_required_fields_present == <<"a", "l", "l", "_", "r", "e", "q", "u", "i", "r", "e", "d", "_", "f", "i", "e", "l", "d", "s", "_", "p", "r", "e", "s", "e", "n", "t">>
K_warnings == <<"w", "a", "r", "n", "i", "n", "g", "s">>
K_suggested_actions == <<"s", "u", "g", "g", "e", "s", "t", "e", "d", "_", "a", "c", "t", "i", "o", "n", "s">>
K_action_type == <<"a", "c", "t", "i", "o", "n", "_", "t", "y", "p", "e">>

W_create_invoice == <<"c", "r", "e", "a", "t", "e", "_", "i", "n", "v", "o", "i", "c", "e">>
W_create_contact == <<"c", "r", "e", "a", "t", "e", "_", "c", "o", "n", "t", "a", "c", "t">>
W_unknown == <<"u", "n", "k", "n", "o", "w", "n">>
W_neutral == <<"n", "e", "u", "t", "r", "a", "l">>
W_incoming == <<"i", "n", "c", "o", "m", "i", "n", "g">>
W_outgoing == <<"o", "u", "t", "g", "o", "i", "n", "g">>
W_simplified == <<"s", "i", "m", "p", "l", "i", "f", "i", "e", "d">>
W_PRIMARY == <<"P", "R", "I", "M", "A", "R", "Y">>
W_FOLLOW_UP == <<"F", "O", "L", "L", "O", "W", "_", "U", "P">>

-----------------------------------------------------------------------------
(* Python's comparisons on parsed values *)

\* isinstance(v, (int, float)): bool is a subclass of int
IsNumber(v) == v.t \in {"int", "float", "bool"}

\* v < 0 for a number v (False for nan)
LessThanZero(v) ==
    \/ v.t = "int" /\ v.n < 0
    \/ v.t = "float" /\ v.f = "-inf"

\* v > 100 for a number v (False for nan)
GreaterThanHundred(v) ==
    \/ v.t = "int" /\ v.n > 100
    \/ v.t = "float" /\ v.f = "inf"

\* max(0, min(100, v)) for a number v with v < 0 or v > 100
Clamp(v) == IF GreaterThanHundred(v) THEN JInt(100) ELSE JInt(0)

\* v == 0
EqualsZero(v) ==
    \/ v.t = "int" /\ v.n = 0
    \/ v.t = "bool" /\ v.b = FALSE

\* 0 <= v <= 100
InRange0To100(v) ==
    \/ v.t = "int" /\ 0 <= v.n /\ v.n <= 100
    \/ v.t = "bool"

-----------------------------------------------------------------------------
(* Stage validators.  Each returns [raised, val]: raised where the code    *)
(* raises ValueError, val the response dictionary as the code has mutated  *)
(* it.                                                                     *)

Raised == [raised |-> TRUE, val |-> JNull]
Passed(v) == [raised |-> FALSE, val |-> v]

\* response[key] = val when key is not in response
SetDefault(obj, key, val) == IF HasKey(obj, key) THEN obj ELSE Put(obj, key, val)

DefaultExtractedSummary ==
    JDict(<<[k |-> K_total_amount, v |-> JNull], [k |-> K_currency, v |-> JNull],
            [k |-> K_document_date, v |-> JNull], [k |-> K_document_number, v |-> JNull]>>)

\* faulty variant: resets the action and keeps the confidence of the model
Stage1NonBusiness_ActionOnly(r) ==
    IF Get(r, K_selected_action) # JNull THEN Put(r, K_selected_action, JNull) ELSE r

\* the non-business branch: selected_action and confidence forced, then return
Stage1NonBusiness(r) ==
    LET r1 == IF Get(r, K_selected_action) # JNull THEN Put(r, K_selected_action, JNull) ELSE r
    IN IF ~EqualsZero(Get(r, K_confidence)) THEN Put(r1, K_confidence, JInt(0)) ELSE r1

\* the clamp of the confidence range check
Stage1Clamp(r) ==
    LET confidence == Get(r, K_confidence)
    IN IF LessThanZero(confidence) \/ GreaterThanHundred(confidence)
       THEN Put(r, K_confidence, Clamp(confidence))
       ELSE r

\* the check of transaction_direction against valid_directions
Stage1Direction(r) ==
    IF Get(r, K_transaction_direction) \notin {JStr(W_incoming), JStr(W_outgoing), JStr(W_neutral)}
    THEN Put(r, K_transaction_direction, JStr(W_neutral))
    ELSE r

\* faulty variant: a response without reasoning is let through
Stage1RequiredMissing_NoReasoning(response) ==
    \/ ~HasKey(response, K_business_relevant)
    \/ Get(response, K_business_relevant).t # "bool"
    \/ ~HasKey(response, K_selected_action)
    \/ ~HasKey(response, K_confidence)

\* the checks of the required top-level fields: one of them raises
Stage1RequiredMissing(response) ==
    \/ ~HasKey(response, K_business_relevant)
    \/ Get(response, K_business_relevant).t # "bool"
    \/ ~HasKey(response, K_selected_action)
    \/ ~HasKey(response, K_confidence)
    \/ ~HasKey(response, K_reasoning)

\* _validate_stage1_response(response)
ValidateStage1Response(response) ==
    IF Stage1RequiredMissing(response) THEN Raised
    ELSE LET r1 == SetDefault(response, K_document_type, JStr(W_unknown))
             r2 == SetDefault(r1, K_transaction_direction, JStr(W_neutral))
             selected_action == Get(r2, K_selected_action)
             confidence == Get(r2, K_confidence)
         IN IF ~Get(r2, K_business_relevant).b THEN Passed(Stage1NonBusiness(r2))
            ELSE IF selected_action # JNull /\ selected_action.t # "str" THEN Raised
            ELSE IF ~IsNumber(confidence) THEN Raised
            ELSE LET r3 == Stage1Direction(Stage1Clamp(r2))
                     r4 == SetDefault(r3, K_primary_party, JNull)
                 IN Passed(SetDefault(r4, K_extracted_summary, DefaultExtractedSummary))

DefaultValidation ==
    JDict(<<[k |-> K_all_required_fields_present, v |-> JBool(TRUE)],
            [k |-> K_warnings, v |-> JList(<<>>)]>>)

\* faulty variant: only absent fields get their default, wrong types stay
Stage2Defaults_AbsentOnly(a) ==
    SetDefault(SetDefault(a, K_lookups_required, JList(<<>>)), K_validation, DefaultValidation)

\* the optional fields of one action (or of the single root): defaults added
Stage2Defaults(a) ==
    LET a1 == SetDefault(a, K_lookups_required, JList(<<>>))
        a2 == IF Get(a1, K_lookups_required).t # "list" THEN Put(a1, K_lookups_required, JList(<<>>)) ELSE a1
        a3 == SetDefault(a2, K_validation, DefaultValidation)
    IN IF Get(a3, K_validation).t # "dict" THEN Put(a3, K_validation, DefaultValidation) ELSE a3

\* the required field of one action (or of the single root) is missing or
\* not an object
Stage2BodyBad(a) ==
    \/ ~HasKey(a, K_api_request_body)
    \/ Get(a, K_api_request_body).t # "dict"

\* _validate_stage2_response(response)
ValidateStage2Response(response) ==
    IF HasKey(response, K_actions)
    THEN LET actions == Get(response, K_actions)
         IN IF actions.t # "list" THEN Raised
            ELSE IF Len(actions.l) = 0 THEN Raised
            ELSE IF \E i \in 1..Len(actions.l) : actions.l[i].t # "dict" \/ Stage2BodyBad(actions.l[i])
                 THEN Raised
            ELSE Passed(Put(response, K_actions,
                            JList([i \in 1..Len(actions.l) |-> Stage2Defaults(actions.l[i])])))
    ELSE IF Stage2BodyBad(response) THEN Raised
    ELSE Passed(Stage2Defaults(response))

-----------------------------------------------------------------------------
(* The classify functions.  A temperature is written in hundredths (10 is  *)
(* 0.1).  model.generate is the external collaborator: it returns decoded  *)
(* text and a token count, or raises (out of memory).                      *)

\* generation_config.get('temperature', 0.1) of classify_stage1 and classify_stage2
DefaultTemperature == 10

\* the temperatures a caller may supply, the default among them
Temperatures == {0, DefaultTemperature, 70}

\* output_tokens < 100: the low-token signal of classify_stage2
LowTokenThreshold == 100

\* the token counts model.generate may report
TokenCounts == {40, LowTokenThreshold - 1, LowTokenThreshold, 150}

\* Decoded outputs of the model (the text after the '{' the prompt ends with)

\* a complete single-action field mapping:
\*   "api_request_body": {"a": 1}, "lookups_required": [], "validation": {}}
D_FieldMapping ==
    <<"\"", "a", "p", "i", "_", "r", "e", "q", "u", "e", "s", "t", "_", "b", "o", "d", "y", "\"", ":", " ", "{", "\"", "a", "\"", ":", " ", "1", "}", ",", " ", "\"", "l", "o", "o", "k", "u", "p", "s", "_", "r", "e", "q", "u", "i", "r", "e", "d", "\"", ":", " ", "[", "]", ",", " ", "\"", "v", "a", "l", "i", "d", "a", "t", "i", "o", "n", "\"", ":", " ", "{", "}", "}">>

\* trailing commas the repair engine removes:
\*   "api_request_body": {"a": 1,}, "lookups_required": [], }
D_TrailingCommas ==
    <<"\"", "a", "p", "i", "_", "r", "e", "q", "u", "e", "s", "t", "_", "b", "o", "d", "y", "\"", ":", " ", "{", "\"", "a", "\"", ":", " ", "1", ",", "}", ",", " ", "\"", "l", "o", "o", "k", "u", "p", "s", "_", "r", "e", "q", "u", "i", "r", "e", "d", "\"", ":", " ", "[", "]", ",", " ", "}">>

\* the object again inside a markdown fence:
\*   ```json\n{"api_request_body": {"a": 1}, "lookups_required": []}\n```
D_Fenced ==
    <<BT, BT, BT, "j", "s", "o", "n", "\n", "{", "\"", "a", "p", "i", "_", "r", "e", "q", "u", "e", "s", "t", "_", "b", "o", "d", "y", "\"", ":", " ", "{", "\"", "a", "\"", ":", " ", "1", "}", ",", " ", "\"", "l", "o", "o", "k", "u", "p", "s", "_", "r", "e", "q", "u", "i", "r", "e", "d", "\"", ":", " ", "[", "]", "}", "\n", BT, BT, BT>>

\* conversational preamble before the object:
\*    Sure, here is the JSON: {"api_request_body": {"a": 1}, "lookups_required": []}
D_Preamble ==
    <<" ", "S", "u", "r", "e", ",", " ", "h", "e", "r", "e", " ", "i", "s", " ", "t", "h", "e", " ", "J", "S", "O", "N", ":", " ", "{", "\"", "a", "p", "i", "_", "r", "e", "q", "u", "e", "s", "t", "_", "b", "o", "d", "y", "\"", ":", " ", "{", "\"", "a", "\"", ":", " ", "1", "}", ",", " ", "\"", "l", "o", "o", "k", "u", "p", "s", "_", "r", "e", "q", "u", "i", "r", "e", "d", "\"", ":", " ", "[", "]", "}">>

\* prose between two objects:
\*   "api_request_body": {"a": 1}, "validation": {"w": {"deep": 1}} and {"api_request_body": {"n": 2}}
D_NestedTail ==
    <<"\"", "a", "p", "i", "_", "r", "e", "q", "u", "e", "s", "t", "_", "b", "o", "d", "y", "\"", ":", " ", "{", "\"", "a", "\"", ":", " ", "1", "}", ",", " ", "\"", "v", "a", "l", "i", "d", "a", "t", "i", "o", "n", "\"", ":", " ", "{", "\"", "w", "\"", ":", " ", "{", "\"", "d", "e", "e", "p", "\"", ":", " ", "1", "}", "}", " ", "a", "n", "d", " ", "{", "\"", "a", "p", "i", "_", "r", "e", "q", "u", "e", "s", "t", "_", "b", "o", "d", "y", "\"", ":", " ", "{", "\"", "n", "\"", ":", " ", "2", "}", "}">>

\* a field mapping wrapped in an object that is itself malformed:
\*   "result": {"api_request_body": {"a": 1}, "lookups_required": [], "validation": {}} "oops"}
D_NestedObject ==
    <<"\"", "r", "e", "s", "u", "l", "t", "\"", ":", " ", "{", "\"", "a", "p", "i", "_", "r", "e", "q", "u", "e", "s", "t", "_", "b", "o", "d", "y", "\"", ":", " ", "{", "\"", "a", "\"", ":", " ", "1", "}", ",", " ", "\"", "l", "o", "o", "k", "u", "p", "s", "_", "r", "e", "q", "u", "i", "r", "e", "d", "\"", ":", " ", "[", "]", ",", " ", "\"", "v", "a", "l", "i", "d", "a", "t", "i", "o", "n", "\"", ":", " ", "{", "}", "}", " ", "\"", "o", "o", "p", "s", "\"", "}">>

\* generation stopped before any closing brace:
\*   "api_request_body": 
D_Unterminated ==
    <<"\"", "a", "p", "i", "_", "r", "e", "q", "u", "e", "s", "t", "_", "b", "o", "d", "y", "\"", ":", " ">>

\* no token generated:
\*   (empty)
D_Empty ==
    <<>>

\* a complete object of fewer than 50 characters:
\*   "api_request_body": {"a": 1}}
D_ShortSpan ==
    <<"\"", "a", "p", "i", "_", "r", "e", "q", "u", "e", "s", "t", "_", "b", "o", "d", "y", "\"", ":", " ", "{", "\"", "a", "\"", ":", " ", "1", "}", "}">>

\* a missing comma no repair rule restores:
\*   "api_request_body": {"a": 1 "b": 2}, "lookups_required": [], "validation": {}}
D_Unrecoverable ==
    <<"\"", "a", "p", "i", "_", "r", "e", "q", "u", "e", "s", "t", "_", "b", "o", "d", "y", "\"", ":", " ", "{", "\"", "a", "\"", ":", " ", "1", " ", "\"", "b", "\"", ":", " ", "2", "}", ",", " ", "\"", "l", "o", "o", "k", "u", "p", "s", "_", "r", "e", "q", "u", "i", "r", "e", "d", "\"", ":", " ", "[", "]", ",", " ", "\"", "v", "a", "l", "i", "d", "a", "t", "i", "o", "n", "\"", ":", " ", "{", "}", "}">>

\* the same with a trailing comma the repair engine removes:
\*   "api_request_body": {"a": 1 "b": 2,}, "lookups_required": [], "validation": {}}
D_UnrecoverableComma ==
    <<"\"", "a", "p", "i", "_", "r", "e", "q", "u", "e", "s", "t", "_", "b", "o", "d", "y", "\"", ":", " ", "{", "\"", "a", "\"", ":", " ", "1", " ", "\"", "b", "\"", ":", " ", "2", ",", "}", ",", " ", "\"", "l", "o", "o", "k", "u", "p", "s", "_", "r", "e", "q", "u", "i", "r", "e", "d", "\"", ":", " ", "[", "]", ",", " ", "\"", "v", "a", "l", "i", "d", "a", "t", "i", "o", "n", "\"", ":", " ", "{", "}", "}">>

\* valid JSON without api_request_body:
\*   "lookups_required": [], "note": "no request body was produced"}
D_MissingBody ==
    <<"\"", "l", "o", "o", "k", "u", "p", "s", "_", "r", "e", "q", "u", "i", "r", "e", "d", "\"", ":", " ", "[", "]", ",", " ", "\"", "n", "o", "t", "e", "\"", ":", " ", "\"", "n", "o", " ", "r", "e", "q", "u", "e", "s", "t", " ", "b", "o", "d", "y", " ", "w", "a", "s", " ", "p", "r", "o", "d", "u", "c", "e", "d", "\"", "}">>

\* a batch whose root carries a numeric lookups_required:
\*   "actions": [{"api_request_body": {}}], "lookups_required": 5, "batch": true}
D_BatchBadRoot ==
    <<"\"", "a", "c", "t", "i", "o", "n", "s", "\"", ":", " ", "[", "{", "\"", "a", "p", "i", "_", "r", "e", "q", "u", "e", "s", "t", "_", "b", "o", "d", "y", "\"", ":", " ", "{", "}", "}", "]", ",", " ", "\"", "l", "o", "o", "k", "u", "p", "s", "_", "r", "e", "q", "u", "i", "r", "e", "d", "\"", ":", " ", "5", ",", " ", "\"", "b", "a", "t", "c", "h", "\"", ":", " ", "t", "r", "u", "e", "}">>

\* an action selection with confidence above 100:
\*   "business_relevant": true, "selected_action": "create_invoice", "confidence": 150, "reasoning": "x"}
D_Action ==
    <<"\"", "b", "u", "s", "i", "n", "e", "s", "s", "_", "r", "e", "l", "e", "v", "a", "n", "t", "\"", ":", " ", "t", "r", "u", "e", ",", " ", "\"", "s", "e", "l", "e", "c", "t", "e", "d", "_", "a", "c", "t", "i", "o", "n", "\"", ":", " ", "\"", "c", "r", "e", "a", "t", "e", "_", "i", "n", "v", "o", "i", "c", "e", "\"", ",", " ", "\"", "c", "o", "n", "f", "i", "d", "e", "n", "c", "e", "\"", ":", " ", "1", "5", "0", ",", " ", "\"", "r", "e", "a", "s", "o", "n", "i", "n", "g", "\"", ":", " ", "\"", "x", "\"", "}">>

\* a non-business document with an action and a confidence:
\*   "business_relevant": false, "selected_action": "create_invoice", "confidence": 80, "reasoning": "x"}
D_NonBusiness ==
    <<"\"", "b", "u", "s", "i", "n", "e", "s", "s", "_", "r", "e", "l", "e", "v", "a", "n", "t", "\"", ":", " ", "f", "a", "l", "s", "e", ",", " ", "\"", "s", "e", "l", "e", "c", "t", "e", "d", "_", "a", "c", "t", "i", "o", "n", "\"", ":", " ", "\"", "c", "r", "e", "a", "t", "e", "_", "i", "n", "v", "o", "i", "c", "e", "\"", ",", " ", "\"", "c", "o", "n", "f", "i", "d", "e", "n", "c", "e", "\"", ":", " ", "8", "0", ",", " ", "\"", "r", "e", "a", "s", "o", "n", "i", "n", "g", "\"", ":", " ", "\"", "x", "\"", "}">>

\* a confidence of NaN:
\*   "business_relevant": true, "selected_action": null, "confidence": NaN, "reasoning": "x"}
D_NaNConfidence ==
    <<"\"", "b", "u", "s", "i", "n", "e", "s", "s", "_", "r", "e", "l", "e", "v", "a", "n", "t", "\"", ":", " ", "t", "r", "u", "e", ",", " ", "\"", "s", "e", "l", "e", "c", "t", "e", "d", "_", "a", "c", "t", "i", "o", "n", "\"", ":", " ", "n", "u", "l", "l", ",", " ", "\"", "c", "o", "n", "f", "i", "d", "e", "n", "c", "e", "\"", ":", " ", "N", "a", "N", ",", " ", "\"", "r", "e", "a", "s", "o", "n", "i", "n", "g", "\"", ":", " ", "\"", "x", "\"", "}">>

\* an action selection without reasoning:
\*   "business_relevant": true, "selected_action": null, "confidence": 10}
D_NoReasoning ==
    <<"\"", "b", "u", "s", "i", "n", "e", "s", "s", "_", "r", "e", "l", "e", "v", "a", "n", "t", "\"", ":", " ", "t", "r", "u", "e", ",", " ", "\"", "s", "e", "l", "e", "c", "t", "e", "d", "_", "a", "c", "t", "i", "o", "n", "\"", ":", " ", "n", "u", "l", "l", ",", " ", "\"", "c", "o", "n", "f", "i", "d", "e", "n", "c", "e", "\"", ":", " ", "1", "0", "}">>

\* Scenario C, a trailing comma inside the inner object:
\*   "api_request_body": {"a":1,}}
D_ScenarioC ==
    <<"\"", "a", "p", "i", "_", "r", "e", "q", "u", "e", "s", "t", "_", "b", "o", "d", "y", "\"", ":", " ", "{", "\"", "a", "\"", ":", "1", ",", "}", "}">>

DecodedOutputs == {
    D_ScenarioC, D_FieldMapping, D_TrailingCommas, D_Fenced, D_Preamble, D_NestedTail,
    D_NestedObject, D_UnrecoverableComma,
    D_Unterminated, D_Empty, D_ShortSpan, D_Unrecoverable, D_MissingBody,
    D_BatchBadRoot, D_Action, D_NonBusiness, D_NaNConfidence,
    D_NoReasoning}

\* answers of the model to a math validation prompt: the text after [/INST]
\*   Sure, here you go: {"passed": true}
M_ScenarioA == <<"S", "u", "r", "e", ",", " ", "h", "e", "r", "e", " ", "y", "o", "u", " ", "g", "o", ":", " ", "{", "\"", "p", "a", "s", "s", "e", "d", "\"", ":", " ", "t", "r", "u", "e", "}">>

\*   {"passed": false, "errors": [], "complexity": "simple"}
M_Complete == <<"{", "\"", "p", "a", "s", "s", "e", "d", "\"", ":", " ", "f", "a", "l", "s", "e", ",", " ", "\"", "e", "r", "r", "o", "r", "s", "\"", ":", " ", "[", "]", ",", " ", "\"", "c", "o", "m", "p", "l", "e", "x", "i", "t", "y", "\"", ":", " ", "\"", "s", "i", "m", "p", "l", "e", "\"", "}">>

\*   {"errors": []}
M_NoPassed == <<"{", "\"", "e", "r", "r", "o", "r", "s", "\"", ":", " ", "[", "]", "}">>

\*   {"passed": "yes"}
M_PassedNotBool == <<"{", "\"", "p", "a", "s", "s", "e", "d", "\"", ":", " ", "\"", "y", "e", "s", "\"", "}">>

\*   I cannot tell.
M_NoJson == <<"I", " ", "c", "a", "n", "n", "o", "t", " ", "t", "e", "l", "l", ".">>

MathOutputs == {M_ScenarioA, M_Complete, M_NoPassed, M_PassedNotBool, M_NoJson}

\* what model.generate does in one invocation: it returns, or raises, and
\* then either torch.cuda.OutOfMemoryError (oom) or another exception
GenerateOutcomes ==
    [fails : {FALSE}, oom : {FALSE}, decoded : DecodedOutputs, output_tokens : TokenCounts]
    \cup [fails : {TRUE}, oom : BOOLEAN, decoded : {<<>>}, output_tokens : {0}]

\* one model.generate invocation as the call made it
Invocation(temperature, do_sample, gen) ==
    [temperature |-> temperature, do_sample |-> do_sample, fails |-> gen.fails, oom |-> gen.oom]

\* the cause recorded when model.generate raised
GenerationError(gen) == IF gen.oom THEN "OutOfMemory" ELSE "GenerationFailed"

\* the class of the exception that leaves classify_stage1 and classify_stage2:
\* except Exception wraps every cause in a new RuntimeError
ExceptionClass(cause) == "RuntimeError"

\* the status prompt_endpoint answers with when classify raised an exception
\* of that class (503 when the message of a RuntimeError says "not initialized")
PromptStatus(class) ==
    IF class = "RuntimeError" THEN 500
    ELSE IF class = "OutOfMemoryError" THEN 507
    ELSE 500

\* a decoded output, the response text made of it and what the parse gave
MakeAttempt(gen, response_text, parsed) ==
    [decoded |-> gen.decoded, response |-> response_text,
     output_tokens |-> gen.output_tokens, kind |-> parsed.kind, val |-> parsed.val]

\* the decoded output with the seeded '{' prepended, and its parse
Attempt(gen, stage) ==
    MakeAttempt(gen, <<"{">> \o gen.decoded,
                ParseClassificationResponse(<<"{">> \o gen.decoded, stage))

\* faulty variant: every parse failure is retried
ShouldEscalate_Always(kind, output_tokens) == TRUE

\* faulty variant: only the token count decides
ShouldEscalate_TokensOnly(kind, output_tokens) == output_tokens < LowTokenThreshold

\* faulty variant: the threshold itself counts as low
ShouldEscalate_AtMost(kind, output_tokens) ==
    output_tokens <= LowTokenThreshold \/ kind = "NoJson"

\* faulty variant: the retry generation keeps the temperature of the request
RetryTemperature_FromRequest(temperature) == temperature

\* the except ValueError branch of classify_stage2: retry, or re-raise
ShouldEscalate(kind, output_tokens) ==
    output_tokens < LowTokenThreshold \/ kind = "NoJson"

\* temperature of the retry generation, whatever the request's temperature
RetryTemperature(temperature) == 0

\* do_sample of the retry generation
RetryDoSample(temperature) == FALSE

\* len() accepts the value
HasLen(v) == v.t \in {"str", "list", "dict"}

\* result.get(key, default) of the two len() calls after validation
LenFails(res, key) == HasKey(res, key) /\ ~HasLen(Get(res, key))

RaisedWith(cause) == [pc |-> "raised", result |-> JNull, error |-> cause]

\* classify_stage1 after validation: the 'format' field added, the result returned
Stage1Return(v) ==
    IF v.raised THEN RaisedWith("Validation")
    ELSE [pc |-> "returned", result |-> Put(v.val, K_format, JStr(W_simplified)), error |-> "none"]

\* classify_stage1 from the parse on, a being the attempt
Stage1Finish(a) ==
    IF a.kind # "ok" THEN RaisedWith(a.kind)
    ELSE Stage1Return(ValidateStage1Response(a.val))

\* classify_stage2 after validation: the two counts it logs, then the return
Stage2Return(v) ==
    IF v.raised THEN RaisedWith("Validation")
    ELSE IF LenFails(v.val, K_lookups_required) \/ LenFails(v.val, K_api_request_body)
         THEN RaisedWith("TypeError")
    ELSE [pc |-> "returned", result |-> v.val, error |-> "none"]

\* classify_stage2 from the first parse on, a being the first attempt
Stage2FirstFinish(a) ==
    IF a.kind = "ok" THEN Stage2Return(ValidateStage2Response(a.val))
    ELSE IF ShouldEscalate(a.kind, a.output_tokens)
         THEN [pc |-> "escalated", result |-> JNull, error |-> "none"]
    ELSE RaisedWith(a.kind)

\* faulty variant: a retry whose parse raises is retried again
Stage2RetryFinish_Again(a) ==
    IF a.kind = "ok" THEN Stage2Return(ValidateStage2Response(a.val))
    ELSE [pc |-> "escalated", result |-> JNull, error |-> "none"]

\* classify_stage2 from the parse of the retry response on
Stage2RetryFinish(a) ==
    IF a.kind = "ok" THEN Stage2Return(ValidateStage2Response(a.val))
    ELSE RaisedWith(a.kind)

CallInit ==
    /\ pc = "idle"
    /\ stageFn = "none"
    /\ genLog = <<>>
    /\ attempts = <<>>
    /\ result = JNull
    /\ error = "none"
    /\ mathReply = <<>>

CallUnused ==
    /\ pc = "unused"
    /\ stageFn = "none"
    /\ genLog = <<>>
    /\ attempts = <<>>
    /\ result = JNull
    /\ error = "none"
    /\ mathReply = <<>>

\* classify_stage0_5_math after the decode: the span re.search(r'\{[\s\S]*\}')
\* finds is parsed with json.loads (no repair), 'passed' is checked and the
\* optional fields get their defaults
Stage05Result(response_text) ==
    IF Find(response_text, "{") = 0 \/ RFind(response_text, "}") < Find(response_text, "{")
    THEN Raised
    ELSE LET parsed == JsonLoads(ExtractedSpan(response_text))
         IN IF ~parsed.ok THEN Raised
            ELSE IF ~HasKey(parsed.val, K_passed) THEN Raised
            ELSE IF Get(parsed.val, K_passed).t # "bool" THEN Raised
            ELSE Passed(SetDefault(SetDefault(SetDefault(SetDefault(parsed.val,
                        K_errors, JList(<<>>)), K_warnings, JList(<<>>)),
                        K_calculations, JDict(<<>>)), K_complexity, JStr(W_moderate)))

\* classify_stage0_5_math: get_llama_processor() returns one LlamaProcessor,
\* which the assignment to (model, tokenizer) cannot unpack: TypeError, caught
\* by except Exception and raised as RuntimeError before any generation
ClassifyStage0_5Math(response_text) ==
    /\ pc = "idle"
    /\ pc' = "raised"
    /\ stageFn' = "math"
    /\ error' = "TypeError"
    /\ mathReply' = response_text
    /\ UNCHANGED <<genLog, attempts, result, rpVars, v1Vars, rtVars, v2Vars, cfgVars, srvVars, schVars, nzVars, lpVars, jrVars>>

\* classify_stage1: one generation, parse, validation; every exception is
\* raised as RuntimeError
ClassifyStage1(temperature, gen) ==
    /\ pc = "idle"
    /\ stageFn' = "stage1"
    /\ genLog' = <<Invocation(temperature, temperature > 0, gen)>>
    /\ IF gen.fails
       THEN /\ attempts' = <<>>
            /\ pc' = "raised" /\ result' = JNull /\ error' = GenerationError(gen)
       ELSE \E a \in {Attempt(gen, 1)} : \E f \in {Stage1Finish(a)} :
               /\ attempts' = <<a>>
               /\ pc' = f.pc /\ result' = f.result /\ error' = f.error
    /\ UNCHANGED <<mathReply, rpVars, v1Vars, rtVars, v2Vars, cfgVars, srvVars, schVars, nzVars, lpVars, jrVars>>

\* classify_stage2 up to the retry generation: the first generation and its
\* parse; on success validation and return, on a parse error the retry
\* decision
ClassifyStage2First(temperature, gen) ==
    /\ pc = "idle"
    /\ stageFn' = "stage2"
    /\ genLog' = <<Invocation(temperature, temperature > 0, gen)>>
    /\ IF gen.fails
       THEN /\ attempts' = <<>>
            /\ pc' = "raised" /\ result' = JNull /\ error' = GenerationError(gen)
       ELSE \E a \in {Attempt(gen, 2)} : \E f \in {Stage2FirstFinish(a)} :
               /\ attempts' = <<a>>
               /\ pc' = f.pc /\ result' = f.result /\ error' = f.error
    /\ UNCHANGED <<mathReply, rpVars, v1Vars, rtVars, v2Vars, cfgVars, srvVars, schVars, nzVars, lpVars, jrVars>>

\* classify_stage2 from the retry generation on: zero temperature, greedy
\* decoding, the same parse, then validation
ClassifyStage2Retry(gen) ==
    /\ pc = "escalated"
    /\ genLog' = Append(genLog, Invocation(RetryTemperature(genLog[1].temperature),
                                           RetryDoSample(genLog[1].temperature), gen))
    /\ IF gen.fails
       THEN /\ attempts' = attempts
            /\ pc' = "raised" /\ result' = JNull /\ error' = GenerationError(gen)
       ELSE \E a \in {Attempt(gen, 2)} : \E f \in {Stage2RetryFinish(a)} :
               /\ attempts' = Append(attempts, a)
               /\ pc' = f.pc /\ result' = f.result /\ error' = f.error
    /\ UNCHANGED <<stageFn, mathReply, rpVars, v1Vars, rtVars, v2Vars, cfgVars, srvVars, schVars, nzVars, lpVars, jrVars>>

\* the caller has its answer; the next request arrives
NextRequest ==
    /\ pc \in {"returned", "raised"}
    /\ pc' = "idle"
    /\ stageFn' = "none"
    /\ genLog' = <<>>
    /\ attempts' = <<>>
    /\ result' = JNull
    /\ error' = "none"
    /\ mathReply' = <<>>
    /\ UNCHANGED <<rpVars, v1Vars, rtVars, v2Vars, cfgVars, srvVars, schVars, nzVars, lpVars, jrVars>>

RepairUnused ==
    /\ rpIn = <<>>
    /\ rpOut = <<>>
    /\ rpOut2 = <<>>
    /\ rpPhase = "unused"

Requests == 1..NumRequests

\* what every classify call of the process reaches: the module global of
\* llama_utils, the attribute of its model, the CUDA caching allocator
SharedObjects == {"_llama_processor", "past_key_values", "cuda_cache"}

\* retry_after of the dict the GPU-memory pre-check returns
RetryAfter == 10

\* what the caller of a /prompt request holds: nothing yet, the dict
\* async_handler returned (by its keys and the values of success, error_type
\* and retry_after), the HTTP error FastAPI made of an HTTPException, or an
\* exception that left async_handler
NoResponse ==
    [kind |-> "none", keys |-> {}, success |-> FALSE, error_type |-> "", retry_after |-> 0]

ServeUnused ==
    /\ deployment = "unused"
    /\ startup = "unused"
    /\ constructions = 0
    /\ reply = [r \in Requests |-> NoResponse]
    /\ jobLog = [r \in Requests |-> {}]
    /\ reqPc = [r \in Requests |-> "unused"]
    /\ semaphore = 1
    /\ llamaProcessor = "None"
    /\ hasPastKeyValues = FALSE
    /\ writers = [o \in SharedObjects |-> {}]
    /\ readers = [o \in SharedObjects |-> {}]
    /\ localWriters = [r \in Requests |-> {}]

\* the three files get_stage_4_schema can ask for: the schema of the action
\* and the two generic field-mapping schemas
SchemaPaths == {"action", "single", "batch"}

NoCall == [made |-> FALSE, is_batch |-> FALSE, action_name |-> FALSE,
           action_loaded |-> "None", generic_loaded |-> "None"]

SchemaUnused ==
    /\ schFiles = [f \in SchemaPaths |-> "missing"]
    /\ schCache = [f \in SchemaPaths |-> "uncached"]
    /\ schCall = NoCall
    /\ schOut = [wrapped |-> FALSE, schema |-> "None"]

JournalUnused ==
    /\ jrResponse = <<>>
    /\ jrOut = [raised |-> FALSE, fallback |-> FALSE, entry |-> JNull]
    /\ jrPhase = "unused"

SpanUnused ==
    /\ nzIn = <<>>
    /\ nzStage = 1
    /\ nzOut = [kind |-> "none", span |-> <<>>, parse |-> "none"]
    /\ nzPhase = "unused"

LoopUnused ==
    /\ lpIn = <<>>
    /\ lpText = <<>>
    /\ lpIters = 0
    /\ lpPhase = "unused"

ConfigUnused ==
    /\ cfgStage = "none"
    /\ cfgIn = [max_new_tokens |-> <<>>, max_input_length |-> <<>>]
    /\ cfgOut = [max_new_tokens |-> 0, max_input_length |-> 0, proceeds |-> FALSE]
    /\ cfgPhase = "unused"

Stage2Unused ==
    /\ v2In = JNull
    /\ v2Out = [raised |-> FALSE, val |-> JNull]
    /\ v2Phase = "unused"

RoundTripUnused ==
    /\ rtIn = <<>>
    /\ rtOut = <<>>
    /\ rtPhase = "unused"

Stage1Unused ==
    /\ v1In = JNull
    /\ v1Out = [pc |-> "unused", result |-> JNull, error |-> "none"]
    /\ v1Phase = "unused"

Init == CallInit /\ RepairUnused /\ Stage1Unused /\ RoundTripUnused /\ Stage2Unused /\ ConfigUnused /\ ServeUnused /\ SchemaUnused /\ SpanUnused /\ LoopUnused /\ JournalUnused

Next ==
    \/ \E m \in MathOutputs : ClassifyStage0_5Math(m)
    \/ \E t \in Temperatures, g \in GenerateOutcomes : ClassifyStage1(t, g)
    \/ \E t \in Temperatures, g \in GenerateOutcomes : ClassifyStage2First(t, g)
    \/ \E g \in GenerateOutcomes : ClassifyStage2Retry(g)
    \/ NextRequest

Spec == Init /\ [][Next]_vars

-----------------------------------------------------------------------------
(* Inputs of the repair engine: every text over the characters its rules   *)
(* read, up to MaxRepairLen characters                                      *)

RepairChars == {"{", "}", ",", "]", " ", "a"}

RECURSIVE TextsUpTo(_, _)
TextsUpTo(chars, n) ==
    IF n = 0 THEN {<<>>}
    ELSE LET shorter == TextsUpTo(chars, n - 1)
         IN shorter \cup {Append(t, c) : t \in {u \in shorter : Len(u) = n - 1}, c \in chars}

RepairInputs == TextsUpTo(RepairChars, MaxRepairLen)

RepairInit ==
    /\ rpIn \in RepairInputs
    /\ rpOut = <<>>
    /\ rpOut2 = <<>>
    /\ rpPhase = "input"
    /\ CallUnused
    /\ Stage1Unused
    /\ RoundTripUnused
    /\ Stage2Unused
    /\ ConfigUnused
    /\ ServeUnused
    /\ SchemaUnused
    /\ SpanUnused
    /\ LoopUnused
    /\ JournalUnused

\* _repair_malformed_json(rpIn)
Repair ==
    /\ rpPhase = "input"
    /\ rpOut' = RepairMalformedJson(rpIn)
    /\ rpPhase' = "once"
    /\ UNCHANGED <<rpIn, rpOut2, callVars, v1Vars, rtVars, v2Vars, cfgVars, srvVars, schVars, nzVars, lpVars, jrVars>>

\* _repair_malformed_json run on its own output
RepairAgain ==
    /\ rpPhase = "once"
    /\ rpOut2' = RepairMalformedJson(rpOut)
    /\ rpPhase' = "twice"
    /\ UNCHANGED <<rpIn, rpOut, callVars, v1Vars, rtVars, v2Vars, cfgVars, srvVars, schVars, nzVars, lpVars, jrVars>>

RepairNext == Repair \/ RepairAgain

SpecRepair == RepairInit /\ [][RepairNext]_vars

-----------------------------------------------------------------------------
(* Inputs of the Action-Selection validator: parsed model outputs in which  *)
(* each field is absent or holds one of a few values of every JSON type     *)

\* one field of a parsed object: no item when choice is <<>>, else its value
Item(key, choice) == IF choice = <<>> THEN <<>> ELSE <<[k |-> key, v |-> choice[1]]>>

Absent == <<>>
Present(values) == {<<v>> : v \in values}

SuggestedAction(action, action_type, confidence) ==
    JDict(<<[k |-> K_action, v |-> JStr(action)], [k |-> K_action_type, v |-> JStr(action_type)],
            [k |-> K_confidence, v |-> JInt(confidence)]>>)

BusinessRelevantChoices == {Absent} \cup Present({JBool(TRUE), JBool(FALSE), JStr(<<"n", "o">>)})

SelectedActionChoices == {Absent} \cup Present({JNull, JStr(W_create_invoice), JInt(7)})

ConfidenceChoices ==
    {Absent} \cup Present({JInt(0 - 5), JInt(0), JInt(50), JInt(100), JInt(150),
                           JFloat("nan"), JFloat("inf"), JFloat("-inf"),
                           JBool(TRUE), JBool(FALSE), JStr(<<"h", "i", "g", "h">>), JNull, JList(<<>>)})

ReasoningChoices == {Absent} \cup Present({JStr(<<"x">>)})

DirectionChoices == {Absent} \cup Present({JStr(W_incoming), JStr(<<"s", "i", "d", "e">>)})

SuggestedActionsChoices ==
    {Absent} \cup Present({
        JList(<<>>),
        JList(<<SuggestedAction(W_create_invoice, W_PRIMARY, 90)>>),
        JList(<<SuggestedAction(W_create_invoice, W_PRIMARY, 90),
                SuggestedAction(W_create_contact, W_PRIMARY, 95)>>),
        JList(<<SuggestedAction(W_create_invoice, W_FOLLOW_UP, 90),
                SuggestedAction(W_create_contact, W_FOLLOW_UP, 95)>>)})

Stage1Inputs ==
    {JDict(Item(K_business_relevant, b) \o Item(K_selected_action, a) \o Item(K_confidence, c)
           \o Item(K_reasoning, r) \o Item(K_transaction_direction, d) \o Item(K_suggested_actions, sa)) :
        b \in BusinessRelevantChoices, a \in SelectedActionChoices, c \in ConfidenceChoices,
        r \in ReasoningChoices, d \in DirectionChoices, sa \in SuggestedActionsChoices}

Stage1Init ==
    /\ v1In \in Stage1Inputs
    /\ v1Out = [pc |-> "idle", result |-> JNull, error |-> "none"]
    /\ v1Phase = "input"
    /\ CallUnused
    /\ RepairUnused
    /\ RoundTripUnused
    /\ Stage2Unused
    /\ ConfigUnused
    /\ ServeUnused
    /\ SchemaUnused
    /\ SpanUnused
    /\ LoopUnused
    /\ JournalUnused

\* classify_stage1 from _validate_stage1_response(result) to the return
ValidateStage1 ==
    /\ v1Phase = "input"
    /\ v1Out' = Stage1Return(ValidateStage1Response(v1In))
    /\ v1Phase' = "done"
    /\ UNCHANGED <<v1In, callVars, rpVars, rtVars, v2Vars, cfgVars, srvVars, schVars, nzVars, lpVars, jrVars>>

\* the caller reads the answer
ReadStage1 ==
    /\ v1Phase = "done"
    /\ v1Phase' = "read"
    /\ UNCHANGED <<v1In, v1Out, callVars, rpVars, rtVars, v2Vars, cfgVars, srvVars, schVars, nzVars, lpVars, jrVars>>

Stage1Next == ValidateStage1 \/ ReadStage1

SpecStage1 == Stage1Init /\ [][Stage1Next]_vars

-----------------------------------------------------------------------------
(* Normalizer and repair engine on responses that are valid JSON already *)

\* _parse_classification_response up to the repair: fences and preamble
\* removed, the span from the first '{' to the last '}' cut out and repaired
NormalizeAndRepair(response) ==
    RepairMalformedJson(ExtractedSpan(RemovePreamble(RemoveFences(response))))

\* the text of the object {"a": "<value>"}
ObjectText(value) == <<"{", "\"", "a", "\"", ":", " ", "\"">> \o value \o <<"\"", "}">>

ValueChars == {"{", "}", ",", BT, "a"}

\* valid objects of other shapes: nested, with a list, with numbers, empty
OtherObjects == {
    <<"{", "}">>,
    <<"{", "\"", "a", "\"", ":", " ", "1", "}">>,
    <<"{", "\"", "a", "\"", ":", " ", "{", "\"", "b", "\"", ":", " ", "[", "1", ",", " ", "2", "]", "}", "}">>,
    <<"{", "\"", "a", "\"", ":", " ", "n", "u", "l", "l", ",", " ", "\"", "b", "\"", ":", " ", "t", "r", "u", "e", "}">>}

RoundTripInputs == {ObjectText(v) : v \in TextsUpTo(ValueChars, MaxValueLen)} \cup OtherObjects

RoundTripInit ==
    /\ rtIn \in RoundTripInputs
    /\ rtOut = <<>>
    /\ rtPhase = "input"
    /\ CallUnused
    /\ RepairUnused
    /\ Stage1Unused
    /\ Stage2Unused
    /\ ConfigUnused
    /\ ServeUnused
    /\ SchemaUnused
    /\ SpanUnused
    /\ LoopUnused
    /\ JournalUnused

\* the response goes through the normalizer and the repair engine
NormalizeRepair ==
    /\ rtPhase = "input"
    /\ rtOut' = NormalizeAndRepair(rtIn)
    /\ rtPhase' = "done"
    /\ UNCHANGED <<rtIn, callVars, rpVars, v1Vars, v2Vars, cfgVars, srvVars, schVars, nzVars, lpVars, jrVars>>

\* json.loads(json_str) has read the repaired text
ParseRepaired ==
    /\ rtPhase = "done"
    /\ rtPhase' = "parsed"
    /\ UNCHANGED <<rtIn, rtOut, callVars, rpVars, v1Vars, v2Vars, cfgVars, srvVars, schVars, nzVars, lpVars, jrVars>>

RoundTripNext == NormalizeRepair \/ ParseRepaired

SpecRoundTrip == RoundTripInit /\ [][RoundTripNext]_vars

-----------------------------------------------------------------------------
(* Inputs of the Field-Mapping validator: single results and batch results  *)
(* whose fields are absent, well typed or wrongly typed                     *)

SmallObject == JDict(<<[k |-> <<"a">>, v |-> JInt(1)]>>)

ApiRequestBodyChoices ==
    {Absent} \cup Present({JDict(<<>>), SmallObject, JList(<<>>), JNull, JInt(5), JStr(<<"x">>)})

LookupsRequiredChoices ==
    {Absent} \cup Present({JList(<<>>), JList(<<JStr(<<"x">>)>>), JDict(<<>>), JNull})

ValidationChoices ==
    {Absent} \cup Present({JDict(<<[k |-> K_warnings, v |-> JList(<<JStr(<<"x">>)>>)]>>),
                           JList(<<>>), JStr(<<"x">>)})

\* a single result, or one action of a batch
ActionObject(body, lookups, validation) ==
    JDict(Item(K_api_request_body, body) \o Item(K_lookups_required, lookups)
          \o Item(K_validation, validation))

SingleResults ==
    {ActionObject(b, l, v) : b \in ApiRequestBodyChoices, l \in LookupsRequiredChoices,
                             v \in ValidationChoices}

BatchActions == {
    ActionObject(<<SmallObject>>, <<JList(<<JStr(<<"x">>)>>)>>,
                 <<JDict(<<[k |-> K_warnings, v |-> JList(<<JStr(<<"x">>)>>)]>>)>>),
    ActionObject(<<SmallObject>>, Absent, Absent),
    ActionObject(<<JDict(<<>>)>>, <<JDict(<<>>)>>, <<JList(<<>>)>>),
    ActionObject(Absent, <<JList(<<>>)>>, Absent),
    ActionObject(<<JList(<<>>)>>, Absent, Absent),
    JInt(5)}

BatchResults ==
    {JDict(<<[k |-> K_actions, v |-> a]>>) :
        a \in {JInt(5), JDict(<<>>), JNull, JList(<<>>)}
              \cup {JList(<<x>>) : x \in BatchActions}
              \cup {JList(<<x, y>>) : x \in BatchActions, y \in BatchActions}}

Stage2Inputs == SingleResults \cup BatchResults

Stage2Init ==
    /\ v2In \in Stage2Inputs
    /\ v2Out = [raised |-> FALSE, val |-> JNull]
    /\ v2Phase = "input"
    /\ CallUnused
    /\ RepairUnused
    /\ Stage1Unused
    /\ RoundTripUnused
    /\ ConfigUnused
    /\ ServeUnused
    /\ SchemaUnused
    /\ SpanUnused
    /\ LoopUnused
    /\ JournalUnused

\* _validate_stage2_response(result)
ValidateStage2 ==
    /\ v2Phase = "input"
    /\ v2Out' = ValidateStage2Response(v2In)
    /\ v2Phase' = "done"
    /\ UNCHANGED <<v2In, callVars, rpVars, v1Vars, rtVars, cfgVars, srvVars, schVars, nzVars, lpVars, jrVars>>

\* classify_stage2 reads the validated result
ReadStage2 ==
    /\ v2Phase = "done"
    /\ v2Phase' = "read"
    /\ UNCHANGED <<v2In, v2Out, callVars, rpVars, v1Vars, rtVars, cfgVars, srvVars, schVars, nzVars, lpVars, jrVars>>

Stage2Next == ValidateStage2 \/ ReadStage2

SpecStage2 == Stage2Init /\ [][Stage2Next]_vars

-----------------------------------------------------------------------------
(* The generation parameters of each stage, under SpecConfig *)

\* "Mixtral max: 32768", the cap of classify_stage1 and classify_stage2
TokenCeiling == 32768

\* the default of max_input_length, the same in every stage
DefaultMaxInputLength == 29491

Stages == {"stage1", "stage2", "stage0_5", "stage2_5"}

\* the default of max_new_tokens in each stage
DefaultMaxNewTokens(stage) ==
    CASE stage = "stage1" -> 2500
      [] stage = "stage2" -> 3000
      [] stage = "stage0_5" -> 1500
      [] stage = "stage2_5" -> 2000

\* values a caller asks for, on both sides of the cap
TokenRequests == {1, 32767, 32768, 32769, 65536}

\* a generation_config: each key absent or present (None is the config with
\* both keys absent)
GenerationConfigs ==
    [max_new_tokens : {Absent} \cup Present(TokenRequests),
     max_input_length : {Absent} \cup Present(TokenRequests)]

\* generation_config.get(key, default)
ConfigGet(choice, default) == IF choice = Absent THEN default ELSE choice[1]

\* if value > 32768: value = 32768
CapTokens(value) == IF value > TokenCeiling THEN TokenCeiling ELSE value

\* the stages whose code has the two "if ... > 32768" statements
HasTokenCap(stage) == stage \in {"stage1", "stage2"}

\* the stages whose call gets as far as the tokenizer and model.generate:
\* classify_stage2_5_entity_extraction and classify_stage0_5_math unpack the
\* one LlamaProcessor into (model, tokenizer) and raise before either
ReachesGenerate(stage) == stage \in {"stage1", "stage2"}

\* the values of max_new_tokens and max_input_length a stage holds when it
\* goes on to tokenize and generate, and whether it gets there
EffectiveConfig(stage, generation_config) ==
    LET new == ConfigGet(generation_config.max_new_tokens, DefaultMaxNewTokens(stage))
        input == ConfigGet(generation_config.max_input_length, DefaultMaxInputLength)
    IN  [max_new_tokens |-> IF HasTokenCap(stage) THEN CapTokens(new) ELSE new,
         max_input_length |-> IF HasTokenCap(stage) THEN CapTokens(input) ELSE input,
         proceeds |-> ReachesGenerate(stage)]

ConfigInit ==
    /\ cfgStage \in Stages
    /\ cfgIn \in GenerationConfigs
    /\ cfgOut = [max_new_tokens |-> 0, max_input_length |-> 0, proceeds |-> FALSE]
    /\ cfgPhase = "input"
    /\ CallUnused
    /\ RepairUnused
    /\ Stage1Unused
    /\ RoundTripUnused
    /\ Stage2Unused
    /\ ServeUnused
    /\ SchemaUnused
    /\ SpanUnused
    /\ LoopUnused
    /\ JournalUnused

\* the stage extracts its generation parameters
ExtractConfig ==
    /\ cfgPhase = "input"
    /\ cfgOut' = EffectiveConfig(cfgStage, cfgIn)
    /\ cfgPhase' = "extracted"
    /\ UNCHANGED <<cfgStage, cfgIn, callVars, rpVars, v1Vars, rtVars, v2Vars, srvVars, schVars, nzVars, lpVars, jrVars>>

\* the stage hands the parameters to the tokenizer and model.generate, or
\* raises before
UseConfig ==
    /\ cfgPhase = "extracted"
    /\ cfgPhase' = IF cfgOut.proceeds THEN "generating" ELSE "raised"
    /\ UNCHANGED <<cfgStage, cfgIn, cfgOut, callVars, rpVars, v1Vars, rtVars, v2Vars, srvVars, schVars, nzVars, lpVars, jrVars>>

ConfigNext == ExtractConfig \/ UseConfig

SpecConfig == ConfigInit /\ [][ConfigNext]_vars

-----------------------------------------------------------------------------
(* Concurrent /prompt requests, under SpecServe *)

\* the request r has written (read) the shared object o
Written(o, r) == [writers EXCEPT ![o] = @ \cup {r}]
Read(o, r) == [readers EXCEPT ![o] = @ \cup {r}]

\* the job of r has done what
Logged(r, what) == [jobLog EXCEPT ![r] = @ \cup {what}]

\* JSONResponse(content=response_data) of prompt_endpoint, as async_handler
\* returns it: json.loads(result.body.decode('utf-8'))
SuccessDict ==
    [kind |-> "dict", keys |-> {"success", "output", "metadata"}, success |-> TRUE,
     error_type |-> "", retry_after |-> 0]

\* the retry signal of the GPU-memory pre-check
InsufficientMemoryDict ==
    [kind |-> "dict", keys |-> {"success", "error", "error_type", "retry_after"},
     success |-> FALSE, error_type |-> "InsufficientGPUMemory", retry_after |-> RetryAfter]

\* except Exception as e: of async_handler, the outermost handler
HandlerErrorDict(error_type) ==
    [kind |-> "dict", keys |-> {"success", "error", "error_type", "traceback"},
     success |-> FALSE, error_type |-> error_type, retry_after |-> 0]

\* an except clause that lets the exception go on
PromptErrorDict_Reraise(error_type, diagnostics_ok) ==
    [kind |-> "raised", keys |-> {}, success |-> FALSE, error_type |-> error_type,
     retry_after |-> 0]

\* except Exception as prompt_error: of the /prompt branch. Its return
\* statement asks torch for the diagnostics; when that raises, the exception
\* reaches the outermost handler of async_handler
PromptErrorDict(error_type, diagnostics_ok) ==
    IF diagnostics_ok
    THEN [kind |-> "dict",
          keys |-> {"success", "error", "error_type", "traceback", "diagnostics"},
          success |-> FALSE, error_type |-> error_type, retry_after |-> 0]
    ELSE HandlerErrorDict("RuntimeError")

\* what FastAPI makes of an HTTPException of prompt_endpoint
HttpError ==
    [kind |-> "http", keys |-> {"detail"}, success |-> FALSE, error_type |-> "HTTPException",
     retry_after |-> 0]

\* __aexit__ of async with classification_semaphore: the free slots after
\* the block was left, by return or by an exception
SemaphoreAfterExit_ReturnOnly(value, raised) == IF raised THEN value ELSE value + 1

SemaphoreAfterExit(value, raised) == value + 1

\* a request leaves the /prompt branch with an exception of class error_type:
\* what its caller gets, and the semaphore
LeaveRaising(r, error_type, diagnostics_ok) ==
    /\ reply' = [reply EXCEPT ![r] = IF deployment = "runpod"
                                           THEN PromptErrorDict(error_type, diagnostics_ok)
                                           ELSE HttpError]
    /\ semaphore' = IF deployment = "runpod" THEN SemaphoreAfterExit(semaphore, TRUE)
                                             ELSE semaphore
    /\ jobLog' = [jobLog EXCEPT ![r] = @ \cup {"raised"}
                                         \cup IF semaphore' > semaphore THEN {"released"} ELSE {}]
    /\ reqPc' = [reqPc EXCEPT ![r] = "done"]

ServeInit ==
    /\ deployment \in {"runpod", "fastapi"}
    /\ startup = IF deployment = "fastapi" THEN "pending" ELSE "done"
    /\ constructions = 0
    /\ reqPc = [r \in Requests |-> "idle"]
    /\ reply = [r \in Requests |-> NoResponse]
    /\ jobLog = [r \in Requests |-> {}]
    /\ semaphore = 1
    /\ llamaProcessor = "None"
    /\ hasPastKeyValues \in BOOLEAN
    /\ writers = [o \in SharedObjects |-> {}]
    /\ readers = [o \in SharedObjects |-> {}]
    /\ localWriters = [r \in Requests |-> {}]
    /\ CallUnused
    /\ RepairUnused
    /\ Stage1Unused
    /\ RoundTripUnused
    /\ Stage2Unused
    /\ ConfigUnused
    /\ SchemaUnused
    /\ SpanUnused
    /\ LoopUnused
    /\ JournalUnused

\* lifespan awaits initialize_models() before the app serves a request:
\* init_llama calls get_llama_processor() in an executor thread and swallows
\* its failure, which leaves _llama_processor unset
InitializeModels(ok) ==
    /\ startup = "pending"
    /\ startup' = "done"
    /\ llamaProcessor' = IF ok THEN "loaded" ELSE "None"
    /\ constructions' = IF ok THEN constructions + 1 ELSE constructions
    /\ UNCHANGED <<deployment, reqPc, semaphore, hasPastKeyValues, writers, readers,
                   localWriters, reply, jobLog,
                   callVars, rpVars, v1Vars, rtVars, v2Vars, cfgVars, schVars, nzVars, lpVars, jrVars>>

\* a /prompt job reaches async_handler and passes the GPU-memory pre-check,
\* or a POST /prompt reaches the app
Arrive(r) ==
    /\ startup = "done"
    /\ reqPc[r] = "idle"
    /\ reqPc' = [reqPc EXCEPT ![r] = IF deployment = "runpod" THEN "waiting" ELSE "admitted"]
    /\ UNCHANGED <<deployment, semaphore, llamaProcessor, hasPastKeyValues, writers, readers,
                   localWriters, startup, constructions, reply, jobLog,
                   callVars, rpVars, v1Vars, rtVars, v2Vars, cfgVars, schVars, nzVars, lpVars, jrVars>>

\* check_gpu_memory_available(required_memory) is False: async_handler
\* returns the retry signal
RejectInsufficientMemory(r) ==
    /\ deployment = "runpod"
    /\ reqPc[r] = "idle"
    /\ reply' = [reply EXCEPT ![r] = InsufficientMemoryDict]
    /\ reqPc' = [reqPc EXCEPT ![r] = "done"]
    /\ UNCHANGED <<deployment, semaphore, llamaProcessor, hasPastKeyValues, writers, readers,
                   localWriters, startup, constructions, jobLog,
                   callVars, rpVars, v1Vars, rtVars, v2Vars, cfgVars, schVars, nzVars, lpVars, jrVars>>

\* async with classification_semaphore: (async_handler only)
AcquireSemaphore(r) ==
    /\ reqPc[r] = "waiting"
    /\ semaphore > 0
    /\ semaphore' = semaphore - 1
    /\ jobLog' = Logged(r, "acquired")
    /\ reqPc' = [reqPc EXCEPT ![r] = "admitted"]
    /\ UNCHANGED <<deployment, llamaProcessor, hasPastKeyValues, writers, readers,
                   localWriters, startup, constructions, reply,
                   callVars, rpVars, v1Vars, rtVars, v2Vars, cfgVars, schVars, nzVars, lpVars, jrVars>>

\* PromptInput(**data) raises (async_handler only: FastAPI validates the body
\* before it calls prompt_endpoint)
FailInput(r, diagnostics_ok) ==
    /\ deployment = "runpod"
    /\ reqPc[r] = "admitted"
    /\ LeaveRaising(r, "ValidationError", diagnostics_ok)
    /\ UNCHANGED <<deployment, llamaProcessor, hasPastKeyValues, writers, readers,
                   localWriters, startup, constructions,
                   callVars, rpVars, v1Vars, rtVars, v2Vars, cfgVars, schVars, nzVars, lpVars, jrVars>>

\* prompt_endpoint hands classify_stage1 or classify_stage2 to the executor;
\* the call starts with get_llama_processor(): it reads _llama_processor
GetLlamaProcessor(r) ==
    /\ reqPc[r] = "admitted"
    /\ readers' = Read("_llama_processor", r)
    /\ reqPc' = [reqPc EXCEPT ![r] = IF llamaProcessor = "None" THEN "loading" ELSE "generating"]
    /\ jobLog' = IF llamaProcessor = "None" THEN jobLog ELSE Logged(r, "invoked")
    /\ UNCHANGED <<deployment, semaphore, llamaProcessor, hasPastKeyValues, writers,
                   localWriters, startup, constructions, reply,
                   callVars, rpVars, v1Vars, rtVars, v2Vars, cfgVars, schVars, nzVars, lpVars, jrVars>>

\* _llama_processor = LlamaProcessor(), then the call goes on to model.generate
CreateLlamaProcessor(r) ==
    /\ reqPc[r] = "loading"
    /\ llamaProcessor' = "loaded"
    /\ constructions' = constructions + 1
    /\ writers' = Written("_llama_processor", r)
    /\ jobLog' = Logged(r, "invoked")
    /\ reqPc' = [reqPc EXCEPT ![r] = "generating"]
    /\ UNCHANGED <<deployment, semaphore, hasPastKeyValues, readers,
                   localWriters, startup, reply,
                   callVars, rpVars, v1Vars, rtVars, v2Vars, cfgVars, schVars, nzVars, lpVars, jrVars>>

\* prompt_endpoint raises HTTPException: verify_api_key refuses the key, or
\* the executor call raised (LlamaProcessor() failed, the generation or the
\* parsing failed) and one of the except clauses of prompt_endpoint wrapped it
FailClassification(r, diagnostics_ok) ==
    /\ reqPc[r] \in {"admitted", "loading", "generating"}
    /\ LeaveRaising(r, "HTTPException", diagnostics_ok)
    /\ UNCHANGED <<deployment, llamaProcessor, hasPastKeyValues, writers, readers,
                   localWriters, startup, constructions,
                   callVars, rpVars, v1Vars, rtVars, v2Vars, cfgVars, schVars, nzVars, lpVars, jrVars>>

\* model.generate returns; the call decodes its response_text and clears the
\* KV cache of the processor's model and the CUDA cache
FinishGenerate(r) ==
    /\ reqPc[r] = "generating"
    /\ localWriters' = [localWriters EXCEPT ![r] = @ \cup {r}]
    /\ readers' = Read("past_key_values", r)
    /\ writers' = IF hasPastKeyValues
                  THEN [writers EXCEPT !["past_key_values"] = @ \cup {r},
                                       !["cuda_cache"] = @ \cup {r}]
                  ELSE Written("cuda_cache", r)
    /\ reqPc' = [reqPc EXCEPT ![r] = "classified"]
    /\ UNCHANGED <<deployment, semaphore, llamaProcessor, hasPastKeyValues,
                   startup, constructions, reply, jobLog,
                   callVars, rpVars, v1Vars, rtVars, v2Vars, cfgVars, schVars, nzVars, lpVars, jrVars>>

\* the response is returned; async_handler leaves the async with block
Respond(r) ==
    /\ reqPc[r] = "classified"
    /\ semaphore' = IF deployment = "runpod" THEN SemaphoreAfterExit(semaphore, FALSE)
                                             ELSE semaphore
    /\ jobLog' = IF deployment = "runpod" THEN Logged(r, "released") ELSE jobLog
    /\ reply' = [reply EXCEPT ![r] = SuccessDict]
    /\ reqPc' = [reqPc EXCEPT ![r] = "done"]
    /\ UNCHANGED <<deployment, llamaProcessor, hasPastKeyValues, writers, readers,
                   localWriters, startup, constructions,
                   callVars, rpVars, v1Vars, rtVars, v2Vars, cfgVars, schVars, nzVars, lpVars, jrVars>>

ServeNext ==
    \/ \E ok \in BOOLEAN : InitializeModels(ok)
    \/ \E r \in Requests : Arrive(r)
    \/ \E r \in Requests : RejectInsufficientMemory(r)
    \/ \E r \in Requests : AcquireSemaphore(r)
    \/ \E r \in Requests, diagnostics_ok \in BOOLEAN : FailInput(r, diagnostics_ok)
    \/ \E r \in Requests : GetLlamaProcessor(r)
    \/ \E r \in Requests : CreateLlamaProcessor(r)
    \/ \E r \in Requests, diagnostics_ok \in BOOLEAN : FailClassification(r, diagnostics_ok)
    \/ \E r \in Requests : FinishGenerate(r)
    \/ \E r \in Requests : Respond(r)

SpecServe == ServeInit /\ [][ServeNext]_vars

\* the scheduling async_handler runs under: a step of a job that stays
\* possible is taken: the event loop resumes a job that waits for the free
\* semaphore, and the generation of an admitted job ends
ServeFairness ==
    \A r \in Requests :
        /\ WF_vars(AcquireSemaphore(r))
        /\ WF_vars(GetLlamaProcessor(r))
        /\ WF_vars(CreateLlamaProcessor(r))
        /\ WF_vars(FinishGenerate(r))
        /\ WF_vars(Respond(r))

SpecServeFair == ServeInit /\ [][ServeNext]_vars /\ ServeFairness


-----------------------------------------------------------------------------
(* The schema loader of src/app/schema_loader.py, under SpecSchema *)

\* what json.load gives for a file that loads: the empty object {} or an
\* object with members
LoadedSchemas == {"empty", "schema"}

\* a schema file: not there, not JSON, or one that loads
FileStates == {"missing", "invalid"} \cup LoadedSchemas

\* the truth value Python gives a loaded schema: {} is false
Truthy(schema) == schema = "schema"

\* faulty variant: whatever the file holds is stored, a failed load as well
LoadSchema_CacheAll(schema_path, cache, files) ==
    IF cache[schema_path] # "uncached" THEN [schema |-> cache[schema_path], cache |-> cache]
    ELSE [schema |-> IF files[schema_path] \in LoadedSchemas THEN files[schema_path] ELSE "None",
          cache |-> [cache EXCEPT ![schema_path] = files[schema_path]]]

\* load_schema(schema_path): the schema returned ("None" for None) and the
\* cache it leaves
LoadSchema(schema_path, cache, files) ==
    IF cache[schema_path] # "uncached" THEN [schema |-> cache[schema_path], cache |-> cache]
    ELSE IF files[schema_path] \notin LoadedSchemas THEN [schema |-> "None", cache |-> cache]
    ELSE [schema |-> files[schema_path],
          cache |-> [cache EXCEPT ![schema_path] = files[schema_path]]]

\* the path of the generic schema
GenericPath(is_batch) == IF is_batch THEN "batch" ELSE "single"

SchemaInit ==
    /\ schFiles \in [SchemaPaths -> FileStates]
    /\ schCache = [f \in SchemaPaths |-> "uncached"]
    /\ schCall = NoCall
    /\ schOut = [wrapped |-> FALSE, schema |-> "None"]
    /\ CallUnused
    /\ RepairUnused
    /\ Stage1Unused
    /\ RoundTripUnused
    /\ Stage2Unused
    /\ ConfigUnused
    /\ ServeUnused
    /\ SpanUnused
    /\ LoopUnused
    /\ JournalUnused

\* get_stage_4_schema(is_batch, action_name, software); action_name is
\* given (TRUE) or None
GetStage4Schema(is_batch, action_name) ==
    \E a \in {IF action_name THEN LoadSchema("action", schCache, schFiles)
              ELSE [schema |-> "None", cache |-> schCache]} :
    \E g \in {LoadSchema(GenericPath(is_batch), a.cache, schFiles)} :
        /\ IF action_name /\ Truthy(a.schema)
           THEN /\ schOut' = [wrapped |-> TRUE, schema |-> a.schema]
                /\ schCache' = a.cache
                /\ schCall' = [made |-> TRUE, is_batch |-> is_batch, action_name |-> action_name,
                               action_loaded |-> a.schema, generic_loaded |-> "None"]
           ELSE /\ schOut' = [wrapped |-> FALSE, schema |-> g.schema]
                /\ schCache' = g.cache
                /\ schCall' = [made |-> TRUE, is_batch |-> is_batch, action_name |-> action_name,
                               action_loaded |-> a.schema, generic_loaded |-> g.schema]
        /\ UNCHANGED <<schFiles, callVars, rpVars, v1Vars, rtVars, v2Vars, cfgVars, srvVars, nzVars, lpVars, jrVars>>

\* a schema file is deployed, replaced or removed between two calls
WriteSchemaFile(f, state) ==
    /\ schCall.made
    /\ schFiles[f] # state
    /\ schFiles' = [schFiles EXCEPT ![f] = state]
    /\ schCall' = NoCall
    /\ UNCHANGED <<schCache, schOut, callVars, rpVars, v1Vars, rtVars, v2Vars, cfgVars, srvVars, nzVars, lpVars, jrVars>>

SchemaNext ==
    \/ \E is_batch \in BOOLEAN, action_name \in BOOLEAN : GetStage4Schema(is_batch, action_name)
    \/ \E f \in SchemaPaths, state \in FileStates : WriteSchemaFile(f, state)

SpecSchema == SchemaInit /\ [][SchemaNext]_vars

-----------------------------------------------------------------------------
(* The Response Normalizer on every short text, under SpecSpan *)

SpanChars == {"{", "}", "a", " "}

SpanInputs == TextsUpTo(SpanChars, MaxRepairLen)

\* _parse_classification_response up to the call of the repair engine: the
\* span json_str[start:end] it hands over (kind "handed"), or the ValueError
\* it raises before ("NoJson", "TooShort")
LocateSpan(response, stage) ==
    LET json_str == RemovePreamble(RemoveFences(response))
    IN  IF Find(json_str, "{") = 0 \/ RFind(json_str, "}") = 0
        THEN [kind |-> "NoJson", span |-> <<>>]
        ELSE IF Len(ExtractedSpan(json_str)) < MinSpanLen /\ stage = 2
        THEN [kind |-> "TooShort", span |-> <<>>]
        ELSE [kind |-> "handed", span |-> ExtractedSpan(json_str)]

SpanInit ==
    /\ nzIn \in SpanInputs
    /\ nzStage \in {1, 2}
    /\ nzOut = [kind |-> "none", span |-> <<>>, parse |-> "none"]
    /\ nzPhase = "input"
    /\ CallUnused
    /\ RepairUnused
    /\ Stage1Unused
    /\ RoundTripUnused
    /\ Stage2Unused
    /\ ConfigUnused
    /\ ServeUnused
    /\ SchemaUnused
    /\ LoopUnused
    /\ JournalUnused

\* the normalizer locates the span
Locate ==
    /\ nzPhase = "input"
    /\ \E located \in {LocateSpan(nzIn, nzStage)} :
           nzOut' = [kind |-> located.kind, span |-> located.span, parse |-> "none"]
    /\ nzPhase' = "located"
    /\ UNCHANGED <<nzIn, nzStage, callVars, rpVars, v1Vars, rtVars, v2Vars, cfgVars, srvVars,
                   schVars, lpVars, jrVars>>

\* the span is repaired and parsed, or the error is raised
ParseSpan ==
    /\ nzPhase = "located"
    /\ nzOut' = [nzOut EXCEPT !.parse = ParseClassificationResponse(nzIn, nzStage).kind]
    /\ nzPhase' = "parsed"
    /\ UNCHANGED <<nzIn, nzStage, callVars, rpVars, v1Vars, rtVars, v2Vars, cfgVars, srvVars,
                   schVars, lpVars, jrVars>>

SpanNext == Locate \/ ParseSpan

SpecSpan == SpanInit /\ [][SpanNext]_vars

-----------------------------------------------------------------------------
(* The repair engine run step by step, under SpecRepairLoop *)

\* needs_outer_wrapper
NeedsOuterWrapper(json_str) == ~StartsWith(Strip(json_str), <<"{">>)

\* faulty variant: Issue #2 left out, no opening brace is added
BeforeLoop_NoWrapper(json_str) ==
    LET s1 == Strip(json_str)
        s2 == IF ~EndsWith(s1, <<"}">>) THEN s1 \o <<"\n", "}">> ELSE s1
    IN CollapseCommas(RemoveTrailingCommas(s2))

\* json_str when the brace counts are taken: after Issues #2 to #5
BeforeLoop(json_str) ==
    LET s0 == Strip(json_str)
        s1 == IF NeedsOuterWrapper(json_str) THEN <<"{", "\n">> \o s0 ELSE s0
        s2 == IF ~EndsWith(s1, <<"}">>) THEN s1 \o <<"\n", "}">> ELSE s1
    IN CollapseCommas(RemoveTrailingCommas(s2))

\* the condition of the while loop
ClosersExceed(s) == Count(s, "}") > Count(s, "{")

\* the body of the while loop: the last '}' is removed if last_brace > 0,
\* nothing changes otherwise
LoopBody(s) ==
    LET last == RFind(s, "}")
    IN IF last > 1 THEN SubSeq(s, 1, last - 1) \o SubSeq(s, last + 1, Len(s)) ELSE s

LoopInit ==
    /\ lpIn \in SpanInputs
    /\ lpText = <<>>
    /\ lpIters = 0
    /\ lpPhase = "input"
    /\ CallUnused
    /\ RepairUnused
    /\ Stage1Unused
    /\ RoundTripUnused
    /\ Stage2Unused
    /\ ConfigUnused
    /\ ServeUnused
    /\ SchemaUnused
    /\ SpanUnused
    /\ JournalUnused

\* Issues #2 to #5, the counts, the if of Issue #6
LoopEnter ==
    /\ lpPhase = "input"
    /\ \E s \in {BeforeLoop(lpIn)} :
           /\ lpText' = s
           /\ lpPhase' = IF ClosersExceed(s) THEN "loop" ELSE "after"
    /\ UNCHANGED <<lpIn, lpIters, callVars, rpVars, v1Vars, rtVars, v2Vars, cfgVars, srvVars,
                   schVars, nzVars, jrVars>>

\* one iteration of the while loop
LoopIterate ==
    /\ lpPhase = "loop"
    /\ ClosersExceed(lpText)
    /\ lpText' = LoopBody(lpText)
    /\ lpIters' = IF lpText' = lpText THEN lpIters ELSE lpIters + 1
    /\ UNCHANGED <<lpIn, lpPhase, callVars, rpVars, v1Vars, rtVars, v2Vars, cfgVars, srvVars,
                   schVars, nzVars, jrVars>>

\* the condition of the while loop is false
LoopExit ==
    /\ lpPhase = "loop"
    /\ ~ClosersExceed(lpText)
    /\ lpPhase' = "after"
    /\ UNCHANGED <<lpIn, lpText, lpIters, callVars, rpVars, v1Vars, rtVars, v2Vars, cfgVars,
                   srvVars, schVars, nzVars, jrVars>>

\* Issue #7 and the return
LoopReturn ==
    /\ lpPhase = "after"
    /\ lpText' = StripDuplicateOpener(lpText, NeedsOuterWrapper(lpIn))
    /\ lpPhase' = "returned"
    /\ UNCHANGED <<lpIn, lpIters, callVars, rpVars, v1Vars, rtVars, v2Vars, cfgVars, srvVars,
                   schVars, nzVars, jrVars>>

LoopNext == LoopEnter \/ LoopIterate \/ LoopExit \/ LoopReturn

\* the function runs on: a step that can be taken is taken
SpecRepairLoop == LoopInit /\ [][LoopNext]_vars /\ WF_vars(LoopNext)

-----------------------------------------------------------------------------
(* The legacy journal entry generation of src/app/llama_utils.py, under     *)
(* SpecJournal                                                               *)

\* required_fields of _parse_journal_response
RequiredJournalFields ==
    {<<"d", "a", "t", "e">>,
     <<"d", "e", "s", "c", "r", "i", "p", "t", "i", "o", "n">>,
     <<"a", "c", "c", "o", "u", "n", "t", "_", "d", "e", "b", "i", "t", "s">>,
     <<"a", "c", "c", "o", "u", "n", "t", "_", "c", "r", "e", "d", "i", "t", "s">>,
     <<"t", "o", "t", "a", "l", "_", "d", "e", "b", "i", "t">>,
     <<"t", "o", "t", "a", "l", "_", "c", "r", "e", "d", "i", "t">>}

\* a journal entry with every required field:
\*   {"date": "d", "description": "x", "account_debits": [], "account_credits": [], "total_debit": 0, "total_credit": 0}
J_Complete ==
    <<"{", "\"", "d", "a", "t", "e", "\"", ":", " ", "\"", "d", "\"", ",", " ", "\"", "d", "e", "s", "c", "r", "i", "p", "t", "i", "o", "n", "\"", ":", " ", "\"", "x", "\"", ",", " ", "\"", "a", "c", "c", "o", "u", "n", "t", "_", "d", "e", "b", "i", "t", "s", "\"", ":", " ", "[", "]", ",", " ", "\"", "a", "c", "c", "o", "u", "n", "t", "_", "c", "r", "e", "d", "i", "t", "s", "\"", ":", " ", "[", "]", ",", " ", "\"", "t", "o", "t", "a", "l", "_", "d", "e", "b", "i", "t", "\"", ":", " ", "0", ",", " ", "\"", "t", "o", "t", "a", "l", "_", "c", "r", "e", "d", "i", "t", "\"", ":", " ", "0", "}">>

\* the same entry with text around it
J_CompleteInProse ==
    <<"o", "k", " ", "{", "\"", "d", "a", "t", "e", "\"", ":", " ", "\"", "d", "\"", ",", " ", "\"", "d", "e", "s", "c", "r", "i", "p", "t", "i", "o", "n", "\"", ":", " ", "\"", "x", "\"", ",", " ", "\"", "a", "c", "c", "o", "u", "n", "t", "_", "d", "e", "b", "i", "t", "s", "\"", ":", " ", "[", "]", ",", " ", "\"", "a", "c", "c", "o", "u", "n", "t", "_", "c", "r", "e", "d", "i", "t", "s", "\"", ":", " ", "[", "]", ",", " ", "\"", "t", "o", "t", "a", "l", "_", "d", "e", "b", "i", "t", "\"", ":", " ", "0", ",", " ", "\"", "t", "o", "t", "a", "l", "_", "c", "r", "e", "d", "i", "t", "\"", ":", " ", "0", "}", " ", "a">>

\* an entry without total_credit
J_MissingField ==
    <<"{", "\"", "d", "a", "t", "e", "\"", ":", " ", "\"", "d", "\"", ",", " ", "\"", "d", "e", "s", "c", "r", "i", "p", "t", "i", "o", "n", "\"", ":", " ", "\"", "x", "\"", ",", " ", "\"", "a", "c", "c", "o", "u", "n", "t", "_", "d", "e", "b", "i", "t", "s", "\"", ":", " ", "[", "]", ",", " ", "\"", "a", "c", "c", "o", "u", "n", "t", "_", "c", "r", "e", "d", "i", "t", "s", "\"", ":", " ", "[", "]", ",", " ", "\"", "t", "o", "t", "a", "l", "_", "d", "e", "b", "i", "t", "\"", ":", " ", "0", "}">>

\* an entry cut off inside account_debits
J_Truncated ==
    <<"{", "\"", "d", "a", "t", "e", "\"", ":", " ", "\"", "d", "\"", ",", " ", "\"", "d", "e", "s", "c", "r", "i", "p", "t", "i", "o", "n", "\"", ":", " ", "\"", "x", "\"", ",", " ", "\"", "a", "c", "c", "o", "u", "n", "t", "_", "d", "e", "b", "i", "t", "s", "\"", ":", " ", "[", "{", "\"", "a", "c", "c", "o", "u", "n", "t", "\"", ":", " ", "\"", "a", "\"", "}">>

\* the texts the model's output decodes to
JournalResponses == SpanInputs \cup {J_Complete, J_CompleteInProse, J_MissingField, J_Truncated}

\* _fallback_journal_entry(None, error_msg)
FallbackJournalEntry == [raised |-> FALSE, fallback |-> TRUE, entry |-> JNull]

\* _parse_journal_response(response): the except clause turns every
\* ValueError and JSONDecodeError of the try block into the fallback entry
ParseJournalResponse(response) ==
    LET start == Find(response, "{")
        end == RFind(response, "}")
        parsed == JsonLoads(SubSeq(response, start, end))
    IN  IF start = 0 \/ end = 0 THEN FallbackJournalEntry
        ELSE IF ~parsed.ok THEN FallbackJournalEntry
        ELSE IF \E field \in RequiredJournalFields : ~HasKey(parsed.val, field)
        THEN FallbackJournalEntry
        ELSE [raised |-> FALSE, fallback |-> FALSE, entry |-> parsed.val]

\* raise RuntimeError(f"Mixtral generation failed: {str(e)}") from e
GenerationFailed == [raised |-> TRUE, fallback |-> FALSE, entry |-> JNull]

JournalInit ==
    /\ jrResponse \in JournalResponses
    /\ jrOut = [raised |-> FALSE, fallback |-> FALSE, entry |-> JNull]
    /\ jrPhase = "decoded"
    /\ CallUnused
    /\ RepairUnused
    /\ Stage1Unused
    /\ RoundTripUnused
    /\ Stage2Unused
    /\ ConfigUnused
    /\ ServeUnused
    /\ SchemaUnused
    /\ SpanUnused
    /\ LoopUnused

\* generate_journal_entry after the decoding: the KV cache is cleared, the
\* response parsed and the result returned
ReturnJournalEntry ==
    /\ jrPhase = "decoded"
    /\ jrOut' = ParseJournalResponse(jrResponse)
    /\ jrPhase' = "returned"
    /\ UNCHANGED <<jrResponse, callVars, rpVars, v1Vars, rtVars, v2Vars, cfgVars, srvVars,
                   schVars, nzVars, lpVars>>

\* torch.cuda.empty_cache() or torch.cuda.synchronize() raises after the
\* decoding: the except clause of generate_journal_entry raises RuntimeError
RaiseGenerationFailed ==
    /\ jrPhase = "decoded"
    /\ jrOut' = GenerationFailed
    /\ jrPhase' = "returned"
    /\ UNCHANGED <<jrResponse, callVars, rpVars, v1Vars, rtVars, v2Vars, cfgVars, srvVars,
                   schVars, nzVars, lpVars>>

JournalNext == ReturnJournalEntry \/ RaiseGenerationFailed

SpecJournal == JournalInit /\ [][JournalNext]_vars

-----------------------------------------------------------------------------
(* Claims about the retry escalation, checked under Spec *)

\* the call has taken the transition FirstAttempt -> Escalated
Regenerated == pc = "escalated" \/ Len(genLog) = 2

\* the first generation returned and its parse raised
FirstParseFailed == Len(attempts) >= 1 /\ attempts[1].kind # "ok"

\* the first generation returned, its parse succeeded and the validator raised
FirstValidationFailed == Len(attempts) = 1 /\ attempts[1].kind = "ok" /\ error = "Validation"

\* the first model.generate invocation itself raised
FirstGenerationFailed == Len(genLog) >= 1 /\ genLog[1].fails

(* C1: in every classify call model.generate is invoked at most twice; the  *)
(* second invocation happens only after the first attempt's parse failed;   *)
(* when the second attempt's parse fails too the call ends raising, with no *)
(* third generation.                                                        *)
C1_AtMostTwoGenerations ==
    /\ Len(genLog) <= 2
    /\ Regenerated => FirstParseFailed
    /\ (Len(attempts) = 2 /\ attempts[2].kind # "ok") =>
           (pc = "raised" /\ error = attempts[2].kind /\ Len(genLog) = 2)

C1_Witness ==
    /\ pc = "raised" /\ Len(genLog) = 2
    /\ Len(attempts) = 2 /\ attempts[2].kind # "ok"

(* C2 as stated: in every stage a first attempt that ends in an            *)
(* unrecoverable JSON error (whatever the token count), or in any parse     *)
(* failure with fewer than 100 output tokens, is followed by the            *)
(* regeneration.                                                            *)
C2_Original ==
    (FirstParseFailed /\ (attempts[1].kind = "Invalid"
                          \/ attempts[1].output_tokens < LowTokenThreshold))
        => Regenerated

(* C2 amended: the regeneration is taken exactly when the stage is         *)
(* Field-Mapping, the first attempt's parse failed, and the output had      *)
(* fewer than 100 tokens or the failure was "no JSON found".                *)
C2_EscalationCondition ==
    Len(genLog) >= 1 =>
        (Regenerated <=> /\ stageFn = "stage2"
                         /\ FirstParseFailed
                         /\ (attempts[1].output_tokens < LowTokenThreshold
                             \/ attempts[1].kind = "NoJson"))

C2_Witness ==
    /\ stageFn = "stage2" /\ Len(genLog) = 2
    /\ attempts[1].kind = "Invalid" /\ attempts[1].output_tokens < LowTokenThreshold

(* C3 as stated: only the truncated-output and unrecoverable-JSON errors    *)
(* trigger the retry; a first attempt failing with "no JSON found", with a  *)
(* validator error or with a generation failure raises at once with no      *)
(* second generation.                                                       *)
C3_Original ==
    /\ Regenerated => attempts[1].kind \in {"TooShort", "Invalid"}
    /\ (FirstParseFailed /\ attempts[1].kind = "NoJson") => (pc = "raised" /\ Len(genLog) = 1)
    /\ FirstValidationFailed => (pc = "raised" /\ Len(genLog) = 1)
    /\ FirstGenerationFailed => (pc = "raised" /\ Len(genLog) = 1)

(* C3 amended: a validator error and a generation failure of the first     *)
(* attempt raise at once with no second generation, in every stage, and so  *)
(* does "no JSON found" in the Action-Selection stage; in the Field-Mapping *)
(* stage "no JSON found" always triggers the retry, and only a parse error  *)
(* of the Field-Mapping stage ever does.                                    *)
C3_RetryTriggers ==
    /\ Regenerated => (stageFn = "stage2" /\ attempts[1].kind \in {"NoJson", "TooShort", "Invalid"})
    /\ (stageFn = "stage2" /\ FirstParseFailed /\ attempts[1].kind = "NoJson") => Regenerated
    /\ (stageFn = "stage1" /\ FirstParseFailed) => (pc = "raised" /\ Len(genLog) = 1)
    /\ FirstValidationFailed => (pc = "raised" /\ Len(genLog) = 1)
    /\ FirstGenerationFailed => (pc = "raised" /\ Len(genLog) = 1)

C3_Witness ==
    /\ stageFn = "stage2" /\ Len(genLog) = 2
    /\ attempts[1].kind = "NoJson" /\ attempts[1].output_tokens >= LowTokenThreshold

\* the first response of a Field-Mapping call has a '{' and a '}' and its
\* extracted span is shorter than the stage minimum
FirstSpanShort ==
    /\ stageFn = "stage2" /\ Len(attempts) >= 1
    /\ Find(RemovePreamble(RemoveFences(attempts[1].response)), "{") > 0
    /\ RFind(RemovePreamble(RemoveFences(attempts[1].response)), "}") > 0
    /\ Len(ExtractedSpan(RemovePreamble(RemoveFences(attempts[1].response)))) < MinSpanLen

(* C4 as stated: a first attempt whose extracted span is shorter than 50   *)
(* characters fails as truncated output and is retried once at temperature  *)
(* 0, for every output token count.                                         *)
C4_Original ==
    FirstSpanShort => /\ attempts[1].kind = "TooShort"
                      /\ Regenerated
                      /\ Len(genLog) = 2 => genLog[2].temperature = 0

(* C4 amended: such a first attempt fails as truncated output; it is       *)
(* retried once at temperature 0 when the output had fewer than 100 tokens, *)
(* and with 100 tokens or more the error is raised with no retry.           *)
C4_ShortSpanRetry ==
    FirstSpanShort => /\ attempts[1].kind = "TooShort"
                      /\ attempts[1].output_tokens < LowTokenThreshold =>
                             (Regenerated /\ (Len(genLog) = 2 => genLog[2].temperature = 0))
                      /\ attempts[1].output_tokens >= LowTokenThreshold =>
                             (pc = "raised" /\ error = "TooShort" /\ Len(genLog) = 1)

C4_Witness ==
    /\ FirstSpanShort /\ attempts[1].output_tokens < LowTokenThreshold
    /\ Len(genLog) = 2 /\ genLog[2].temperature = 0

(* C5: every second invocation of model.generate runs at temperature 0     *)
(* without sampling, whatever temperature the request carried, and its      *)
(* output is parsed as the first one is: '{' prepended, then                *)
(* _parse_classification_response of stage 2.                               *)
C5_GreedyRetry ==
    /\ Len(genLog) = 2 => (genLog[2].temperature = 0 /\ genLog[2].do_sample = FALSE)
    /\ Len(attempts) = 2 =>
           /\ attempts[2].response = <<"{">> \o attempts[2].decoded
           /\ [kind |-> attempts[2].kind, val |-> attempts[2].val]
                  = ParseClassificationResponse(attempts[2].response, 2)

C5_Witness ==
    /\ Len(attempts) = 2 /\ Len(genLog) = 2
    /\ genLog[1].temperature > 0 /\ genLog[1].do_sample
    /\ attempts[2].kind = "ok" /\ pc = "returned"

(* C15: a math validation call whose model output holds a JSON object with *)
(* a boolean 'passed', with or without text before it, returns that object  *)
(* with errors, warnings, calculations and complexity filled in where       *)
(* absent; when 'passed' is absent or no boolean the call raises.           *)
C15_MathValidation ==
    (stageFn = "math" /\ pc \in {"returned", "raised"}) =>
        IF Stage05Result(mathReply).raised
        THEN pc = "raised"
        ELSE pc = "returned" /\ result = Stage05Result(mathReply).val

\* the raw text of Scenario C and the text the repair is to make of it
ScenarioC == <<"{">> \o D_ScenarioC
ScenarioCRepaired == <<"{", "\"", "a", "p", "i", "_", "r", "e", "q", "u", "e", "s", "t", "_", "b", "o", "d", "y", "\"", ":", " ", "{", "\"", "a", "\"", ":", "1", "}", "}">>

\* the object {"api_request_body": {"a": 1}}
ScenarioCObject == JDict(<<[k |-> K_api_request_body, v |-> JDict(<<[k |-> <<"a">>, v |-> JInt(1)]>>)]>>)

(* C16 as stated: the Field-Mapping parse of the Scenario C text returns   *)
(* the object of the repaired text without raising.                         *)
C16_Original ==
    \A i \in 1..Len(attempts) :
        (stageFn = "stage2" /\ attempts[i].response = ScenarioC) =>
            (attempts[i].kind = "ok" /\ attempts[i].val = ScenarioCObject)

(* C16 amended: the repair engine turns the span of the Scenario C text    *)
(* into {"api_request_body": {"a":1}}, which parses to that object, and the *)
(* parse of stage 1 returns it; the parse of stage 2 raises the             *)
(* truncated-output error before the repair, the span having 30 characters. *)
C16_ScenarioC ==
    \A i \in 1..Len(attempts) :
        attempts[i].response = ScenarioC =>
            /\ NormalizeAndRepair(attempts[i].response) = ScenarioCRepaired
            /\ JsonLoads(ScenarioCRepaired) = [ok |-> TRUE, val |-> ScenarioCObject]
            /\ Len(ExtractedSpan(attempts[i].response)) = 30
            /\ stageFn = "stage2" => attempts[i].kind = "TooShort"
            /\ stageFn = "stage1" => (attempts[i].kind = "ok" /\ attempts[i].val = ScenarioCObject)

C16_Witness ==
    /\ stageFn = "stage2" /\ Len(attempts) = 1
    /\ attempts[1].response = ScenarioC /\ attempts[1].kind = "TooShort"

\* the attempt the call ended on
FinalAttempt == attempts[Len(attempts)]

\* the root JSON object of the final model output: the text from the first
\* '{' to the last '}' of the normalized response, repaired and parsed
FinalRoot == JsonLoads(NormalizeAndRepair(FinalAttempt.response))

(* C21: a classify call ends by returning a record or by raising, never    *)
(* both; a returned record comes from a final attempt whose parse and       *)
(* validation succeeded, and it is the root JSON object of that model       *)
(* output, never an object picked out of it.                                *)
C21_ValidatedRootOrError ==
    /\ pc = "returned" => (error = "none" /\ result # JNull)
    /\ pc = "raised" => (error # "none" /\ result = JNull)
    /\ (pc = "returned" /\ stageFn \in {"stage1", "stage2"}) =>
           /\ attempts # <<>>
           /\ FinalAttempt.kind = "ok"
           /\ IF stageFn = "stage1"
              THEN Stage1Finish(FinalAttempt).pc = "returned"
              ELSE Stage2RetryFinish(FinalAttempt).pc = "returned"
           /\ FinalRoot.ok
           /\ FinalRoot.val = FinalAttempt.val

(* C23: when the repaired span does not parse, the regex fallback runs once *)
(* on the full raw response and the longest match, repaired, is parsed;     *)
(* when that fails too, no value is returned and the error raised carries   *)
(* the original and the repaired strings.                                   *)
C23_FallbackOrUnrecoverable ==
    \A i \in 1..Len(attempts) :
        LET a == attempts[i]
            repaired == NormalizeAndRepair(a.response)
            matches == FindAllBalanced(a.response, 1)
        IN  /\ (a.kind = "ok" /\ ~JsonLoads(repaired).ok) =>
                   /\ matches # <<>>
                   /\ \A j \in 1..Len(matches) : Len(matches[j]) <= Len(Largest(matches))
                   /\ a.val = JsonLoads(RepairMalformedJson(Largest(matches))).val
            /\ a.kind = "Invalid" =>
                   /\ a.val = JNull
                   /\ ~JsonLoads(repaired).ok
                   /\ {a.response, repaired} \subseteq InvalidJsonCarries(a.response, repaired)

(* C19: when model.generate raises an out-of-memory error in the first or *)
(* in the escalated attempt, no further generation is made and the caller   *)
(* receives the out-of-memory error kind itself, not the error kind of the  *)
(* JSON-shape and validation failures, so that /prompt answers 507.         *)
C19_OutOfMemorySurfaced ==
    /\ \A i \in 1..Len(genLog) : genLog[i].oom => (i = Len(genLog) /\ pc = "raised")
    /\ (pc = "raised" /\ error = "OutOfMemory") =>
           /\ ExceptionClass(error) = "OutOfMemoryError"
           /\ ExceptionClass(error) # ExceptionClass("Validation")
           /\ PromptStatus(ExceptionClass(error)) = 507

-----------------------------------------------------------------------------
(* Claims about the Action-Selection validator, checked under SpecStage1 *)

Stage1Returned == v1Phase \in {"done", "read"} /\ v1Out.pc = "returned"

\* the input has the four required fields and a boolean business_relevant
Stage1RequiredPresent ==
    /\ HasKey(v1In, K_business_relevant) /\ Get(v1In, K_business_relevant).t = "bool"
    /\ HasKey(v1In, K_selected_action) /\ HasKey(v1In, K_confidence) /\ HasKey(v1In, K_reasoning)

(* C6: every returned record with business_relevant false has              *)
(* selected_action None and a confidence equal to 0, whatever the model     *)
(* output held in the two fields.                                           *)
C6_NonBusinessForced ==
    (Stage1Returned /\ Get(v1Out.result, K_business_relevant) = JBool(FALSE)) =>
        /\ Get(v1Out.result, K_selected_action) = JNull
        /\ EqualsZero(Get(v1Out.result, K_confidence))

C6_Witness ==
    /\ Stage1Returned /\ Get(v1Out.result, K_business_relevant) = JBool(FALSE)
    /\ Get(v1In, K_selected_action) = JStr(W_create_invoice)
    /\ Get(v1In, K_confidence) = JStr(<<"h", "i", "g", "h">>)

(* C7: every returned record has 0 <= confidence <= 100: with              *)
(* business_relevant true a number below 0 comes back as 0, one above 100   *)
(* as 100, one inside the range unchanged, and a value that is no number    *)
(* makes the validator raise.                                               *)
C7_ConfidenceInRange ==
    /\ Stage1Returned => InRange0To100(Get(v1Out.result, K_confidence))
    /\ (Stage1Returned /\ Get(v1In, K_business_relevant) = JBool(TRUE)) =>
           Get(v1Out.result, K_confidence) =
               (IF LessThanZero(Get(v1In, K_confidence)) THEN JInt(0)
                ELSE IF GreaterThanHundred(Get(v1In, K_confidence)) THEN JInt(100)
                ELSE Get(v1In, K_confidence))
    /\ (v1Phase \in {"done", "read"} /\ Stage1RequiredPresent
        /\ Get(v1In, K_business_relevant) = JBool(TRUE) /\ ~IsNumber(Get(v1In, K_confidence)))
           => v1Out.pc = "raised"

\* the number of actions of the list that carry action_type PRIMARY
PrimaryCount(actions) ==
    Cardinality({i \in 1..Len(actions.l) : Get(actions.l[i], K_action_type) = JStr(W_PRIMARY)})

(* C8: every returned record whose suggested_actions list is not empty has *)
(* exactly one action of action_type PRIMARY.                               *)
C8_ExactlyOnePrimary ==
    (/\ Stage1Returned
     /\ HasKey(v1Out.result, K_suggested_actions)
     /\ Get(v1Out.result, K_suggested_actions).t = "list"
     /\ Len(Get(v1Out.result, K_suggested_actions).l) > 0)
        => PrimaryCount(Get(v1Out.result, K_suggested_actions)) = 1

(* C12: the Action-Selection validator returns normally only when          *)
(* business_relevant, selected_action, confidence and reasoning are all in  *)
(* the parsed object and business_relevant is a boolean; when one of the    *)
(* four is absent it raises, nothing is returned, and no value is put in    *)
(* the place of the missing field.                                          *)
C12_RequiredFields ==
    v1Phase \in {"done", "read"} =>
        /\ v1Out.pc = "returned" => Stage1RequiredPresent
        /\ (\E key \in {K_business_relevant, K_selected_action, K_confidence, K_reasoning} :
                ~HasKey(v1In, key))
               => (v1Out.pc = "raised" /\ v1Out.error = "Validation" /\ v1Out.result = JNull)
        /\ (HasKey(v1In, K_business_relevant) /\ Get(v1In, K_business_relevant).t # "bool")
               => v1Out.pc = "raised"

C12_Witness ==
    /\ v1Phase = "done" /\ v1Out.pc = "raised"
    /\ HasKey(v1In, K_business_relevant) /\ Get(v1In, K_business_relevant) = JBool(TRUE)
    /\ HasKey(v1In, K_selected_action) /\ HasKey(v1In, K_confidence)
    /\ ~HasKey(v1In, K_reasoning)

(* C13: every returned record of the Action-Selection stage has a          *)
(* transaction_direction among incoming, outgoing and neutral: neutral when *)
(* the model output had none or another value, with business_relevant true  *)
(* and false alike.                                                         *)
C13_DirectionValid ==
    Stage1Returned =>
        /\ Get(v1Out.result, K_transaction_direction)
               \in {JStr(W_incoming), JStr(W_outgoing), JStr(W_neutral)}
        /\ (~HasKey(v1In, K_transaction_direction)
            \/ Get(v1In, K_transaction_direction)
                   \notin {JStr(W_incoming), JStr(W_outgoing), JStr(W_neutral)})
               => Get(v1Out.result, K_transaction_direction) = JStr(W_neutral)

-----------------------------------------------------------------------------
(* Claims about the Field-Mapping validator, checked under SpecStage2 *)

\* the action (or single root) has the three fields, each of its type
ActionWellTyped(a) ==
    /\ a.t = "dict"
    /\ HasKey(a, K_api_request_body) /\ Get(a, K_api_request_body).t = "dict"
    /\ HasKey(a, K_lookups_required) /\ Get(a, K_lookups_required).t = "list"
    /\ HasKey(a, K_validation) /\ Get(a, K_validation).t = "dict"

\* out is what the validator must make of the action (or single root) in
\* with respect to the two optional fields
OptionalFieldsSettled(in, out) ==
    /\ Get(out, K_api_request_body) = Get(in, K_api_request_body)
    /\ Get(out, K_lookups_required) =
           (IF HasKey(in, K_lookups_required) /\ Get(in, K_lookups_required).t = "list"
            THEN Get(in, K_lookups_required) ELSE JList(<<>>))
    /\ Get(out, K_validation) =
           (IF HasKey(in, K_validation) /\ Get(in, K_validation).t = "dict"
            THEN Get(in, K_validation)
            ELSE JDict(<<[k |-> K_all_required_fields_present, v |-> JBool(TRUE)],
                         [k |-> K_warnings, v |-> JList(<<>>)]>>))

\* the action (or single root) lacks api_request_body or has one that is no object
BodyMissingOrWrong(a) ==
    ~HasKey(a, K_api_request_body) \/ Get(a, K_api_request_body).t # "dict"

\* the cases in which the validator has to raise
Stage2MustRaise(in) ==
    IF HasKey(in, K_actions)
    THEN \/ Get(in, K_actions).t # "list"
         \/ Len(Get(in, K_actions).l) = 0
         \/ \E i \in 1..Len(Get(in, K_actions).l) :
                Get(in, K_actions).l[i].t # "dict" \/ BodyMissingOrWrong(Get(in, K_actions).l[i])
    ELSE BodyMissingOrWrong(in)

(* C14: after _validate_stage2_response returns normally, every action of  *)
(* a batch result and the root of a single result has an object            *)
(* api_request_body, a list lookups_required and an object validation, an   *)
(* absent or wrongly typed lookups_required having become [] and an absent  *)
(* or wrongly typed validation the default; it raises when api_request_body *)
(* is absent or no object, when actions is no list or empty, or when an     *)
(* action is no object.                                                     *)
C14_Stage2WellTyped ==
    v2Phase \in {"done", "read"} =>
        /\ Stage2MustRaise(v2In) => v2Out.raised
        /\ (~v2Out.raised /\ ~HasKey(v2In, K_actions)) =>
               (ActionWellTyped(v2Out.val) /\ OptionalFieldsSettled(v2In, v2Out.val))
        /\ (~v2Out.raised /\ HasKey(v2In, K_actions)) =>
               /\ Get(v2Out.val, K_actions).t = "list"
               /\ Len(Get(v2Out.val, K_actions).l) = Len(Get(v2In, K_actions).l)
               /\ \A i \in 1..Len(Get(v2Out.val, K_actions).l) :
                      /\ ActionWellTyped(Get(v2Out.val, K_actions).l[i])
                      /\ OptionalFieldsSettled(Get(v2In, K_actions).l[i],
                                               Get(v2Out.val, K_actions).l[i])

C14_Witness ==
    /\ v2Phase = "done" /\ ~v2Out.raised
    /\ HasKey(v2In, K_actions) /\ Get(v2In, K_actions).t = "list"
    /\ Len(Get(v2In, K_actions).l) = 2
    /\ Get(v2In, K_actions).l[2].t = "dict"
    /\ HasKey(Get(v2In, K_actions).l[2], K_lookups_required)
    /\ Get(Get(v2In, K_actions).l[2], K_lookups_required) = JDict(<<>>)
    /\ Get(Get(v2Out.val, K_actions).l[2], K_lookups_required) = JList(<<>>)

-----------------------------------------------------------------------------
(* Claims about the JSON Repair Engine, checked under SpecRepair *)

(* C9: the repair engine is idempotent: a second run on its own output      *)
(* returns that output unchanged.                                           *)
C9_RepairIdempotent == rpPhase = "twice" => rpOut2 = rpOut

(* C10: the output of the repair engine has as many '{' as '}'.             *)
C10_BracesBalanced == rpPhase \in {"once", "twice"} => Count(rpOut, "{") = Count(rpOut, "}")

\* the characters of a text that are no delimiter and no whitespace, in order
NonDelimiters(s) == SelectSeq(s, LAMBDA c : c \notin {"{", "}", ","} /\ ~IsWs(c))

(* C25: the repair engine deletes and inserts '{', '}', ',' and whitespace  *)
(* only: every other character of its input is in its output, in the same  *)
(* order, and the output has no other character.                            *)
C25_OnlyDelimiters ==
    /\ rpPhase \in {"once", "twice"} => NonDelimiters(rpOut) = NonDelimiters(rpIn)
    /\ rpPhase = "twice" => NonDelimiters(rpOut2) = NonDelimiters(rpIn)

C25_Witness ==
    /\ rpPhase = "once"
    /\ rpIn = <<"a", ",", "]", ",">>
    /\ rpOut = <<"{", "\n", "a", "]", "\n", "}">>

-----------------------------------------------------------------------------
(* Claims about the loop of the repair engine, checked under SpecRepairLoop *)

(* C26: _repair_malformed_json terminates on every input: each iteration of *)
(* the loop that strips excess closing braces removes one '}', the last '}' *)
(* is never at position 0 when the body runs, and the function returns.     *)
C26_RepairTerminates ==
    /\ [][(lpPhase = "loop" /\ lpPhase' = "loop") =>
              Count(lpText', "}") = Count(lpText, "}") - 1]_lpVars
    /\ []((lpPhase = "loop" /\ ClosersExceed(lpText)) => RFind(lpText, "}") > 1)
    /\ <>(lpPhase = "returned")

C26_Witness ==
    /\ lpPhase = "returned"
    /\ lpIters >= 2
    /\ lpText = RepairMalformedJson(lpIn)

-----------------------------------------------------------------------------
(* Claims about normalizer and repair together, checked under SpecRoundTrip *)

(* C11: a response that is a valid JSON object comes out of the normalizer *)
(* and the repair engine as a text that parses to the same keys and values. *)
C11_RoundTrip ==
    rtPhase \in {"done", "parsed"} =>
        (JsonLoads(rtOut).ok /\ JsonLoads(rtOut).val = JsonLoads(rtIn).val)

-----------------------------------------------------------------------------
(* Claims about the generation parameters, checked under SpecConfig *)

(* C20: in every stage, for every generation_config, max_new_tokens and     *)
(* max_input_length as handed to the tokenizer and model.generate are at    *)
(* most 32768: a larger requested value becomes 32768 and the request goes  *)
(* on, a value at or below the ceiling is handed on unchanged.               *)
C20_TokenCeiling ==
    cfgPhase \in {"extracted", "generating", "raised"} =>
        LET new == ConfigGet(cfgIn.max_new_tokens, DefaultMaxNewTokens(cfgStage))
            input == ConfigGet(cfgIn.max_input_length, DefaultMaxInputLength)
        IN  /\ cfgOut.max_new_tokens <= TokenCeiling
            /\ cfgOut.max_input_length <= TokenCeiling
            /\ new <= TokenCeiling => cfgOut.max_new_tokens = new
            /\ input <= TokenCeiling => cfgOut.max_input_length = input
            /\ new > TokenCeiling => cfgOut.max_new_tokens = TokenCeiling
            /\ input > TokenCeiling => cfgOut.max_input_length = TokenCeiling
            /\ (new > TokenCeiling \/ input > TokenCeiling) => cfgPhase # "raised"

-----------------------------------------------------------------------------
(* Claims about concurrent requests, checked under SpecServe *)

\* the requests whose classify call is inside model.generate
Generating == {r \in Requests : reqPc[r] = "generating"}

(* C17: at most one model generation is in progress at any time, whichever  *)
(* entry point serves the requests and however they interleave.             *)
C17_OneGeneration == Cardinality(Generating) <= 1

(* C18: no object written while serving one request is read or written      *)
(* while serving another: the locals of a call and the model-side state it  *)
(* resets are touched by that request only.                                 *)
C18_RequestLocal ==
    /\ \A r \in Requests : localWriters[r] \subseteq {r}
    /\ \A o \in SharedObjects : \A w \in writers[o] : (writers[o] \cup readers[o]) \subseteq {w}

-----------------------------------------------------------------------------
(* Claims about the schema loader, checked under SpecSchema *)

-----------------------------------------------------------------------------
(* Claims about the Response Normalizer, checked under SpecSpan *)

(* C24: a span handed to the repair engine contains at least one '{' and    *)
(* at least one '}'; a text without '{' or without '}' fails with the       *)
(* no-JSON-found error.                                                     *)
C24_SpanHasBraces ==
    nzPhase \in {"located", "parsed"} =>
        /\ nzOut.kind = "handed" =>
               (Count(nzOut.span, "{") >= 1 /\ Count(nzOut.span, "}") >= 1)
        /\ (Count(nzIn, "{") = 0 \/ Count(nzIn, "}") = 0) => nzOut.kind = "NoJson"

-----------------------------------------------------------------------------
(* Claims about async_handler, checked under SpecServe and SpecServeFair *)

\* the /prompt jobs async_handler has answered
Answered == {r \in Requests : deployment = "runpod" /\ reqPc[r] = "done"}

(* C27: for the endpoint /prompt, async_handler always returns a dict and    *)
(* never lets an exception escape: a job in which the construction of the    *)
(* input or the classification raised (an HTTPException of prompt_endpoint   *)
(* included) is answered with a dict that has success = False, error and     *)
(* error_type.                                                               *)
C27_AlwaysResponseDict ==
    /\ \A r \in Requests : reply[r].kind # "raised"
    /\ \A r \in Answered :
           /\ reply[r].kind = "dict"
           /\ "success" \in reply[r].keys
           /\ "raised" \in jobLog[r] =>
                  /\ reply[r].success = FALSE
                  /\ {"error", "error_type"} \subseteq reply[r].keys
                  /\ reply[r].error_type \in {"ValidationError", "HTTPException", "RuntimeError"}

\* one job failed in PromptInput(**data), another in the classification
\* after the model was invoked, and both were answered
C27_Witness ==
    \E r1, r2 \in Answered :
        /\ jobLog[r1] = {"acquired", "raised", "released"}
        /\ reply[r1].error_type = "ValidationError"
        /\ {"invoked", "raised"} \subseteq jobLog[r2]
        /\ reply[r2].error_type = "HTTPException"

\* the jobs inside async with classification_semaphore
Running == {r \in Requests : reqPc[r] \in {"admitted", "loading", "generating", "classified"}}

(* C28: the classification semaphore is released on every exit of a /prompt *)
(* job, successful or failed: its free count is 1 whenever no job is inside *)
(* the block, and every queued job eventually acquires it when generations  *)
(* terminate; a job rejected by the GPU-memory pre-check                    *)
(* (InsufficientGPUMemory, retry_after 10) never acquires it and never      *)
(* invokes the model.                                                       *)
C28_SemaphoreReleased ==
    /\ [](deployment = "runpod" =>
            /\ semaphore = 1 - Cardinality(Running)
            /\ \A r \in Answered : "acquired" \in jobLog[r] => "released" \in jobLog[r]
            /\ \A r \in Requests :
                   reply[r].error_type = "InsufficientGPUMemory" =>
                       /\ reply[r].retry_after = RetryAfter
                       /\ jobLog[r] = {})
    /\ \A r \in Requests :
           (deployment = "runpod" /\ reqPc[r] = "waiting") ~> ("acquired" \in jobLog[r])

\* one job left the block with an exception and released the semaphore,
\* another one was rejected by the pre-check, a third one holds the semaphore
C28_Witness ==
    /\ semaphore = 0
    /\ \E r1, r2, r3 \in Requests :
           /\ r1 \in Answered /\ {"acquired", "raised", "released"} \subseteq jobLog[r1]
           /\ r2 \in Answered /\ reply[r2] = InsufficientMemoryDict
           /\ r3 \in Running /\ jobLog[r3] = {"acquired", "invoked"}

(* C29: at most one LlamaProcessor is ever constructed in the process,     *)
(* however the callers of get_llama_processor interleave: the start-up      *)
(* initializer and the classify calls in the worker threads of the          *)
(* executor, the case included where start-up initialization failed and     *)
(* left the global unset.                                                   *)
C29_OneConstruction == constructions <= 1

-----------------------------------------------------------------------------
(* Claims about the journal entry generation, checked under SpecJournal *)

\* the response has no JSON object, or one that does not parse, or one that
\* lacks a required field
JournalResponseBad ==
    \/ Find(jrResponse, "{") = 0
    \/ RFind(jrResponse, "}") = 0
    \/ LET parsed == JsonLoads(SubSeq(jrResponse, Find(jrResponse, "{"), RFind(jrResponse, "}")))
       IN  \/ ~parsed.ok
           \/ \E field \in RequiredJournalFields : ~HasKey(parsed.val, field)

(* C30: generate_journal_entry never returns the fallback journal entry:   *)
(* when the response of the model contains no JSON, JSON that does not      *)
(* parse or JSON without a required field, it raises RuntimeError instead   *)
(* of returning substitute data.                                            *)
C30_NoFallbackReturned ==
    jrPhase = "returned" =>
        /\ ~jrOut.fallback
        /\ JournalResponseBad => jrOut.raised

=========================================================================
